---- MODULE Spec2Model ----
(***************************************************************************)
(* A model of BnanR's render graph (BnanRenderGraph): the handle registry, *)
(* barrier synthesis for declared pass uses, and the per-frame-slot        *)
(* scheduler with its fences, semaphores and the presentation surface.     *)
(***************************************************************************)
EXTENDS Integers, Sequences, FiniteSets, TLC

(* ------------------------------------------------------------------ *)
(* Program constants                                                   *)
(* ------------------------------------------------------------------ *)

\* bnan_rendering.rs: pub const FRAMES_IN_FLIGHT: usize = 2
FRAMES_IN_FLIGHT == 2

\* graph.rs new(): swapchain_resource_handle: Some(ResourceHandle(0))
SwapchainHandle == 0

(* ------------------------------------------------------------------ *)
(* Bounds of the model                                                 *)
(* ------------------------------------------------------------------ *)

\* at most this many import_render_image calls
MaxImports == 1
\* at most this many add_pass calls
MaxPasses == 1
\* the surface reports between MinImageCount and MaxImageCount images
MaxImageCount == 3
\* frames run by the end-to-end scenario
MaxFrames == 4
\* slot counts N from 2 up to this one are examined
MaxSlots == 4
\* a CircularList holds at most this many elements
MaxListLen == 3
\* at most this many passes declared up front
MaxDeclared == 2
\* at most this many imports when passes are declared up front
MaxRegistered == 2

Slots == 0 .. (FRAMES_IN_FLIGHT - 1)

\* choose_swap_image_count: min_image_count + 1, so at least 2
MinImageCount == FRAMES_IN_FLIGHT

ImageCounts == MinImageCount .. MaxImageCount

\* a handle value that import never issues (import issues odd values only)
NeverIssued == SwapchainHandle + 2

\* Option<ResourceHandle>::None of a use's resolve_target
NoHandle == SwapchainHandle - 1

\* Option: None is the empty sequence, Some(x) the sequence holding x
None == << >>
Some(x) == << x >>

(* ------------------------------------------------------------------ *)
(* resource.rs: ResourceUsage and its fixed table                      *)
(* ------------------------------------------------------------------ *)

ResourceUsage ==
    { "ColorAttachment", "DepthStencilAttachment", "DepthStencilResolve",
      "ShaderRead", "StorageRead", "StorageWrite", "TransferSrc",
      "TransferDst", "Present" }

\* a table that gives DepthStencilResolve the stage and access of the
\* depth attachment itself
get_stage_and_access_depth(usage) ==
    CASE usage = "ColorAttachment" ->
            <<"COLOR_ATTACHMENT_OUTPUT", "COLOR_ATTACHMENT_WRITE">>
      [] usage \in {"DepthStencilAttachment", "DepthStencilResolve"} ->
            <<"EARLY_FRAGMENT_TESTS", "DEPTH_STENCIL_ATTACHMENT_WRITE">>
      [] usage = "ShaderRead" -> <<"FRAGMENT_SHADER", "SHADER_READ">>
      [] usage = "StorageRead" -> <<"COMPUTE_SHADER", "SHADER_STORAGE_READ">>
      [] usage = "StorageWrite" -> <<"COMPUTE_SHADER", "SHADER_STORAGE_WRITE">>
      [] usage = "TransferSrc" -> <<"TRANSFER", "TRANSFER_READ">>
      [] usage = "TransferDst" -> <<"TRANSFER", "TRANSFER_WRITE">>
      [] usage = "Present" -> <<"NONE", "NONE">>

\* ResourceUsage::get_stage_and_access: <<stage, access>>
get_stage_and_access(usage) ==
    CASE usage = "ColorAttachment" ->
            <<"COLOR_ATTACHMENT_OUTPUT", "COLOR_ATTACHMENT_WRITE">>
      [] usage = "DepthStencilAttachment" ->
            <<"EARLY_FRAGMENT_TESTS", "DEPTH_STENCIL_ATTACHMENT_WRITE">>
      [] usage = "DepthStencilResolve" ->
            <<"COLOR_ATTACHMENT_OUTPUT", "COLOR_ATTACHMENT_WRITE">>
      [] usage = "ShaderRead" -> <<"FRAGMENT_SHADER", "SHADER_READ">>
      [] usage = "StorageRead" -> <<"COMPUTE_SHADER", "SHADER_STORAGE_READ">>
      [] usage = "StorageWrite" -> <<"COMPUTE_SHADER", "SHADER_STORAGE_WRITE">>
      [] usage = "TransferSrc" -> <<"TRANSFER", "TRANSFER_READ">>
      [] usage = "TransferDst" -> <<"TRANSFER", "TRANSFER_WRITE">>
      [] usage = "Present" -> <<"NONE", "NONE">>

\* ResourceUsage::get_layout
get_layout(usage) ==
    CASE usage = "ColorAttachment" -> "COLOR_ATTACHMENT_OPTIMAL"
      [] usage = "DepthStencilAttachment" -> "DEPTH_STENCIL_ATTACHMENT_OPTIMAL"
      [] usage = "DepthStencilResolve" -> "DEPTH_STENCIL_ATTACHMENT_OPTIMAL"
      [] usage = "ShaderRead" -> "SHADER_READ_ONLY_OPTIMAL"
      [] usage \in {"StorageRead", "StorageWrite"} -> "GENERAL"
      [] usage = "TransferSrc" -> "TRANSFER_SRC_OPTIMAL"
      [] usage = "TransferDst" -> "TRANSFER_DST_OPTIMAL"
      [] usage = "Present" -> "PRESENT_SRC_KHR"

\* A declared use-site as graph.rs reads it: handle, stage, layout,
\* resolve_target, use_previous_frame.  The stage and layout are the ones
\* the usage table gives for the declared usage.
RenderPassResource(handle, usage, resolve, temporal) ==
    [ handle |-> handle,
      stage |-> get_stage_and_access(usage)[1],
      layout |-> get_layout(usage),
      resolve_target |-> resolve,
      use_previous_frame |-> temporal ]

\* RenderPass::new (the name and the callback carry no state of the graph)
RenderPass(inputs, outputs) == [ inputs |-> inputs, outputs |-> outputs ]

(* ------------------------------------------------------------------ *)
(* resource.rs: PhysicalResource                                       *)
(* ------------------------------------------------------------------ *)

\* PhysicalResource::new_image: tracked state starts undefined
new_image(handle) ==
    [ resource |-> "Image",
      current_layout |-> "UNDEFINED",
      current_stage |-> "NONE" ]

\* PhysicalResource::new_buffer
new_buffer(handle) ==
    [ resource |-> "Buffer",
      current_layout |-> "UNDEFINED",
      current_stage |-> "NONE" ]

\* the rebind keeping the layout the previous frame's pass recorded
swapchain_physical_kept(image_index) ==
    [ resource |-> "SwapchainImage",
      image |-> image_index,
      current_layout |-> "COLOR_ATTACHMENT_OPTIMAL",
      current_stage |-> "COLOR_ATTACHMENT_OUTPUT" ]

\* execute(): the physical resource bound for the acquired image
swapchain_physical(image_index) ==
    [ resource |-> "SwapchainImage",
      image |-> image_index,
      current_layout |-> "UNDEFINED",
      current_stage |-> "COLOR_ATTACHMENT_OUTPUT" ]

\* The physical image a use touches: images[use_frame] of a per-frame
\* array, or the one presentation image bound for this frame.
PhysicalImage(handle, physical, use_frame) ==
    IF physical.resource = "SwapchainImage"
    THEN <<SwapchainHandle, physical.image>>
    ELSE <<handle, use_frame>>

(* ------------------------------------------------------------------ *)
(* bnan_device.rs: the barrier builder                                 *)
(* ------------------------------------------------------------------ *)

\* build_image_transition_barrier: the source (access, stage) is read off
\* the old layout; a layout outside the table is "unsupported layout
\* transition" (bail!).
SrcStageOf(old_layout) ==
    CASE old_layout = "UNDEFINED" -> "NONE"
      [] old_layout = "COLOR_ATTACHMENT_OPTIMAL" -> "COLOR_ATTACHMENT_OUTPUT"
      [] old_layout = "DEPTH_STENCIL_ATTACHMENT_OPTIMAL" -> "EARLY_FRAGMENT_TESTS"
      [] old_layout = "TRANSFER_SRC_OPTIMAL" -> "TRANSFER"
      [] old_layout = "TRANSFER_DST_OPTIMAL" -> "TRANSFER"
      [] old_layout = "SHADER_READ_ONLY_OPTIMAL" -> "FRAGMENT_SHADER"
      [] OTHER -> "unsupported"

DstStageOf(new_layout) ==
    CASE new_layout = "GENERAL" -> "ALL_COMMANDS"
      [] new_layout = "COLOR_ATTACHMENT_OPTIMAL" -> "COLOR_ATTACHMENT_OUTPUT"
      [] new_layout = "DEPTH_STENCIL_ATTACHMENT_OPTIMAL" -> "EARLY_FRAGMENT_TESTS"
      [] new_layout = "TRANSFER_SRC_OPTIMAL" -> "TRANSFER"
      [] new_layout = "TRANSFER_DST_OPTIMAL" -> "TRANSFER"
      [] new_layout = "SHADER_READ_ONLY_OPTIMAL" -> "FRAGMENT_SHADER"
      [] new_layout = "PRESENT_SRC_KHR" -> "NONE"
      [] OTHER -> "unsupported"

build_image_transition_barrier(image, old_layout, new_layout) ==
    [ ok |-> SrcStageOf(old_layout) # "unsupported"
             /\ DstStageOf(new_layout) # "unsupported",
      image |-> image,
      old_layout |-> old_layout,
      new_layout |-> new_layout,
      src_stage |-> SrcStageOf(old_layout),
      dst_stage |-> DstStageOf(new_layout) ]

(* ------------------------------------------------------------------ *)
(* graph.rs execute(): barrier synthesis for one pass                  *)
(* ------------------------------------------------------------------ *)

\* The state threaded through the synthesis of one frame:
\*   res     the registry (handle -> PhysicalResource)
\*   actual  the layout each physical image really is in once the commands
\*           recorded so far have run
\*   batch   the builder's image_barriers
\*   trace   one entry per use that found its resource
\*   failed  an unwrap() of a failed transition panicked
SynthState(res, actual) ==
    [ res |-> res, actual |-> actual, batch |-> <<>>, trace |-> <<>>,
      failed |-> FALSE ]

\* needs_barrier with the layout comparison left out
NeedsBarrierStageOnly(physical, required_stage, required_layout) ==
    physical.current_stage # required_stage

\* needs_barrier that never compares with the recorded state
NeedsBarrierAlways(physical, required_stage, required_layout) == TRUE

\* needs_barrier of process_resource
NeedsBarrier(physical, required_stage, required_layout) ==
    LET is_image == physical.resource \in {"SwapchainImage", "Image"}
    IN  (is_image /\ physical.current_layout # required_layout)
        \/ physical.current_stage # required_stage

\* process_resource that pushes the barrier and forgets to record the
\* new (layout, stage)
process_resource_unrecorded(st, handle, required_stage, required_layout, use_frame) ==
    IF st.failed \/ handle \notin DOMAIN st.res
    THEN st
    ELSE
      LET physical == st.res[handle]
          image == PhysicalImage(handle, physical, use_frame)
          barrier == build_image_transition_barrier(
                        image, physical.current_layout, required_layout)
          entry == [ handle |-> handle,
                     image |-> image,
                     old_layout |-> physical.current_layout,
                     required_stage |-> required_stage,
                     required_layout |-> required_layout,
                     actual_before |-> st.actual[image],
                     barrier |-> FALSE ]
      IN  IF NeedsBarrier(physical, required_stage, required_layout)
          THEN IF physical.resource = "Buffer" \/ ~barrier.ok
               THEN [st EXCEPT !.failed = TRUE]
               ELSE [st EXCEPT
                       !.batch = Append(@, barrier),
                       !.trace = Append(@, [entry EXCEPT !.barrier = TRUE]),
                       !.actual[image] = required_layout]
          ELSE [st EXCEPT !.trace = Append(@, entry)]

\* the closure process_resource
process_resource(st, handle, required_stage, required_layout, use_frame) ==
    IF st.failed \/ handle \notin DOMAIN st.res
    THEN st
    ELSE
      LET physical == st.res[handle]
          image == PhysicalImage(handle, physical, use_frame)
          barrier == build_image_transition_barrier(
                        image, physical.current_layout, required_layout)
          entry == [ handle |-> handle,
                     image |-> image,
                     old_layout |-> physical.current_layout,
                     required_stage |-> required_stage,
                     required_layout |-> required_layout,
                     actual_before |-> st.actual[image],
                     barrier |-> FALSE ]
      IN  IF NeedsBarrier(physical, required_stage, required_layout)
          THEN IF physical.resource = "Buffer" \/ ~barrier.ok
               THEN [st EXCEPT !.failed = TRUE]
               ELSE [st EXCEPT
                       !.batch = Append(@, barrier),
                       !.trace = Append(@, [entry EXCEPT !.barrier = TRUE]),
                       !.actual[image] = required_layout,
                       !.res[handle].current_layout = required_layout,
                       !.res[handle].current_stage = required_stage]
          ELSE [st EXCEPT !.trace = Append(@, entry)]

\* use_frame that indexes a non-temporal input by a fixed copy
UseFrameFixed(use, frame_index) ==
    IF use.use_previous_frame
    THEN (frame_index + (FRAMES_IN_FLIGHT - 1)) % FRAMES_IN_FLIGHT
    ELSE 0

\* use_frame of an input: the previous slot for a temporal use
UseFrame(use, frame_index) ==
    IF use.use_previous_frame
    THEN (frame_index + (FRAMES_IN_FLIGHT - 1)) % FRAMES_IN_FLIGHT
    ELSE frame_index

\* one call of process_resource
Call(handle, stage, layout, use_frame) ==
    [ handle |-> handle, stage |-> stage, layout |-> layout,
      use_frame |-> use_frame ]

\* the call made for the resolve target of an output
ResolveCall(output, frame_index) ==
    IF output.layout = "DEPTH_STENCIL_ATTACHMENT_OPTIMAL"
    THEN Call(output.resolve_target, "EARLY_FRAGMENT_TESTS",
              "DEPTH_STENCIL_ATTACHMENT_OPTIMAL", frame_index)
    ELSE Call(output.resolve_target, "COLOR_ATTACHMENT_OUTPUT",
              "COLOR_ATTACHMENT_OPTIMAL", frame_index)

RECURSIVE InputCalls(_, _)
InputCalls(inputs, frame_index) ==
    IF inputs = <<>> THEN <<>>
    ELSE <<Call(Head(inputs).handle, Head(inputs).stage, Head(inputs).layout,
                UseFrame(Head(inputs), frame_index))>>
         \o InputCalls(Tail(inputs), frame_index)

RECURSIVE OutputCalls(_, _)
OutputCalls(outputs, frame_index) ==
    IF outputs = <<>> THEN <<>>
    ELSE LET output == Head(outputs)
         IN  <<Call(output.handle, output.stage, output.layout, frame_index)>>
             \o (IF output.resolve_target # NoHandle
                 THEN <<ResolveCall(output, frame_index)>>
                 ELSE <<>>)
             \o OutputCalls(Tail(outputs), frame_index)

\* the calls of process_resource for one pass, in order
PassCalls(pass, frame_index) ==
    InputCalls(pass.inputs, frame_index)
    \o OutputCalls(pass.outputs, frame_index)

RECURSIVE ProcessCalls(_, _)
ProcessCalls(st, calls) ==
    IF calls = <<>> THEN st
    ELSE ProcessCalls(
            process_resource(st, Head(calls).handle, Head(calls).stage,
                             Head(calls).layout, Head(calls).use_frame),
            Tail(calls))

\* One pass: a fresh builder, the uses, then barrier_builder.record.
\* The result carries the registry and the batch recorded for the pass.
SynthesizePass(res, actual, pass, frame_index) ==
    ProcessCalls(SynthState(res, actual), PassCalls(pass, frame_index))


(* ------------------------------------------------------------------ *)
(* bnan_rendering.rs: BnanRenderHelper                                 *)
(* ------------------------------------------------------------------ *)

\* BnanRenderHelper::new.  The fences are created signaled.  Beside the
\* fields of the struct the record keeps
\*   work      slot -> "none" | "executing" | "complete": the submission
\*             made with the slot's fence since the fence was last reset
\*   call, returned, recreated, tick   the latest call of begin_frame or
\*             end_frame, what it returned, whether it recreated the
\*             swapchain; tick flips on every call
NewHelper ==
    [ current_image_index |-> 0,
      current_frame_index |-> 0,
      current_frame |-> 0,
      is_frame_started |-> FALSE,
      render_fences |-> [s \in Slots |-> TRUE],
      work |-> [s \in Slots |-> "none"],
      call |-> "none", returned |-> "none", recreated |-> FALSE,
      tick |-> 0 ]

\* begin_frame(): bail if a frame is started; wait for and reset the
\* slot's fence; acquire (a suboptimal or out-of-date result recreates the
\* swapchain and returns the error); start the frame
begin_frame(h, acq) ==
    LET called == [h EXCEPT !.call = "begin_frame", !.tick = 1 - @,
                            !.recreated = FALSE]
        slot == h.current_frame_index
        waited == [called EXCEPT !.render_fences[slot] = FALSE,
                                 !.work[slot] = "none"]
    IN  IF h.is_frame_started
        THEN [called EXCEPT !.returned = "Err"]
        ELSE IF acq.stale
        THEN [waited EXCEPT !.returned = "Err", !.recreated = TRUE]
        ELSE [waited EXCEPT !.current_image_index = acq.index,
                            !.is_frame_started = TRUE,
                            !.returned = "Ok"]

\* end_frame() without its first guard
end_frame_unguarded(h, present_stale) ==
    [h EXCEPT !.call = "end_frame", !.tick = 1 - @,
              !.work[h.current_frame_index] = "executing",
              !.recreated = present_stale,
              !.is_frame_started = FALSE,
              !.current_frame = @ + 1,
              !.current_frame_index = (@ + 1) % FRAMES_IN_FLIGHT,
              !.returned = "Ok"]

\* end_frame(): bail if no frame is started; submit with the slot's fence;
\* present (a stale result recreates the swapchain); advance
end_frame(h, present_stale) ==
    IF ~h.is_frame_started
    THEN [h EXCEPT !.call = "end_frame", !.tick = 1 - @,
                   !.recreated = FALSE, !.returned = "Err"]
    ELSE [h EXCEPT !.call = "end_frame", !.tick = 1 - @,
                   !.work[h.current_frame_index] = "executing",
                   !.recreated = present_stale,
                   !.is_frame_started = FALSE,
                   !.current_frame = @ + 1,
                   !.current_frame_index = (@ + 1) % FRAMES_IN_FLIGHT,
                   !.returned = "Ok"]

\* The state of frame slot i: Recording between a successful begin_frame
\* and its end_frame, Submitted from the submission until the slot's fence
\* is next waited for and reset, Idle otherwise.
SlotState(h, i) ==
    IF h.is_frame_started /\ h.current_frame_index = i THEN "Recording"
    ELSE IF h.work[i] # "none" THEN "Submitted"
    ELSE "Idle"

(* ------------------------------------------------------------------ *)
(* stl/circular_linked_list.rs: CircularList and its cursor            *)
(* ------------------------------------------------------------------ *)

\* CircularList::new.  items is the linked list front to back; cursor is
\* the position of the borrowed cursor, 0 for the null object between the
\* last and the first element; borrowed says a cursor is alive; op is the
\* latest operation.
NewList ==
    [ items |-> << >>, cursor |-> 0, borrowed |-> FALSE, op |-> "new" ]

\* CursorMut::is_null, move_next, move_prev of the linked list: the null
\* object sits between the last and the first element
is_null(c) == c.cursor = 0

move_next(c) ==
    [c EXCEPT !.cursor = IF @ = Len(c.items) THEN 0 ELSE @ + 1]

move_prev(c) ==
    [c EXCEPT !.cursor = IF @ = 0 THEN Len(c.items) ELSE @ - 1]

\* push_front, push_back
push_front(l, value) == [l EXCEPT !.items = << value >> \o @]

push_back(l, value) == [l EXCEPT !.items = Append(@, value)]

\* cursor_mut(): the list's cursor starts at the null object and is moved
\* off it once
cursor_mut(l) ==
    LET c == [l EXCEPT !.cursor = 0, !.borrowed = TRUE]
    IN  IF is_null(c) THEN move_next(c) ELSE c

\* current()
cursor_current(c) == IF is_null(c) THEN None ELSE Some(c.items[c.cursor])

\* rotate_next()
rotate_next(c) ==
    IF cursor_current(c) # None
    THEN LET moved == move_next(c)
         IN  IF is_null(moved) THEN move_next(moved) ELSE moved
    ELSE c

\* rotate_prev()
rotate_prev(c) ==
    IF cursor_current(c) # None
    THEN LET moved == move_prev(c)
         IN  IF is_null(moved) THEN move_prev(moved) ELSE moved
    ELSE c

\* the sequence without its i-th element
RemoveAt(items, i) ==
    SubSeq(items, 1, i - 1) \o SubSeq(items, i + 1, Len(items))

\* the sequence with value put in as its i-th element
InsertAt(items, i, value) ==
    SubSeq(items, 1, i - 1) \o << value >> \o SubSeq(items, i, Len(items))

\* remove_current(): CursorMut::remove leaves the cursor on the element
\* that followed the removed one (the null object after the last one)
remove_current(c) ==
    IF cursor_current(c) # None
    THEN LET rest == RemoveAt(c.items, c.cursor)
             removed == [c EXCEPT !.items = rest,
                                  !.cursor = IF @ > Len(rest) THEN 0 ELSE @]
         IN  IF is_null(removed) THEN move_next(removed) ELSE removed
    ELSE c

\* insert_after(value): CursorMut::insert_after; at the null object the
\* element goes to the front.  The cursor stays where it is.
insert_after(c, value) ==
    [c EXCEPT !.items = InsertAt(@, c.cursor + 1, value)]

\* insert_before(value): CursorMut::insert_before; at the null object the
\* element goes to the back.  The cursor stays on its element.
insert_before(c, value) ==
    IF is_null(c)
    THEN [c EXCEPT !.items = Append(@, value)]
    ELSE [c EXCEPT !.items = InsertAt(@, c.cursor, value),
                   !.cursor = @ + 1]

(* ------------------------------------------------------------------ *)
(* stl/sparse_set.rs: SparseSet                                        *)
(* ------------------------------------------------------------------ *)

\* usize::MAX, the mark of an empty entry of sparse: a value no index of
\* a Vec reaches
usize_MAX == 2147483647

\* bounds of the positions and values a caller of a SparseSet uses
MaxPos == 2
MaxValue == 2

\* The result of an operation: the object it leaves and the value it
\* returned, or a panic (an index out of bounds, an arithmetic overflow).
\* A SparseSet is [sparse, dense, dense_idx]; the three Vecs are sequences
\* and the indices they hold are the zero-based indices of the source, so
\* v[i] of the source is v[i + 1] here.
Result(set, ret, panicked) ==
    [ set |-> set, ret |-> ret, panicked |-> panicked ]

\* SparseSet::contains: self.dense_idx[self.sparse[idx]] == idx
SparseSet_contains(s, idx) ==
    IF idx >= Len(s.sparse) THEN Result(s, FALSE, TRUE)
    ELSE IF s.sparse[idx + 1] >= Len(s.dense_idx) THEN Result(s, FALSE, TRUE)
    ELSE Result(s, s.dense_idx[s.sparse[idx + 1] + 1] = idx, FALSE)

\* Index::index: &self.dense[self.sparse[index]]
SparseSet_index(s, idx) ==
    IF idx >= Len(s.sparse) THEN Result(s, None, TRUE)
    ELSE IF s.sparse[idx + 1] >= Len(s.dense) THEN Result(s, None, TRUE)
    ELSE Result(s, Some(s.dense[s.sparse[idx + 1] + 1]), FALSE)

\* SparseSet::insert: resize sparse with usize::MAX up to pos; replace the
\* element of a position that has an entry and return the old one; else
\* push onto dense and dense_idx and point sparse[pos] at the new element
SparseSet_insert(s, pos, elem) ==
    LET sparse == [ i \in 1 .. (IF pos >= Len(s.sparse) THEN pos + 1
                                ELSE Len(s.sparse)) |->
                      IF i <= Len(s.sparse) THEN s.sparse[i] ELSE usize_MAX ]
    IN  IF sparse[pos + 1] # usize_MAX
        THEN IF sparse[pos + 1] >= Len(s.dense)
             THEN Result(s, None, TRUE)
             ELSE Result([s EXCEPT !.dense[sparse[pos + 1] + 1] = elem],
                         Some(s.dense[sparse[pos + 1] + 1]), FALSE)
        ELSE Result([ sparse |-> [sparse EXCEPT ![pos + 1] = Len(s.dense)],
                      dense |-> Append(s.dense, elem),
                      dense_idx |-> Append(s.dense_idx, pos) ], None, FALSE)

\* SparseSet::remove.  last_idx is read from dense_idx at dense_index,
\* before the swap with the last element; then sparse[last_idx] is set to
\* last_index, sparse[pos] to usize::MAX, and both Vecs are popped.
\* dense.len() - 1 of an empty dense overflows: a panic in a debug
\* build, and in a release build the index that follows is out of bounds.
SparseSet_remove(s, pos) ==
    IF pos >= Len(s.sparse) THEN Result(s, None, FALSE)
    ELSE IF s.sparse[pos + 1] = usize_MAX THEN Result(s, None, FALSE)
    ELSE IF s.dense = << >> THEN Result(s, None, TRUE)
    ELSE IF s.sparse[pos + 1] >= Len(s.dense_idx) THEN Result(s, None, TRUE)
    ELSE LET dense_index == s.sparse[pos + 1] + 1
             last_index == Len(s.dense)
             last_idx == s.dense_idx[dense_index]
         IN  IF last_idx >= Len(s.sparse) THEN Result(s, None, TRUE)
             ELSE Result(
                    [ sparse |->
                        [[s.sparse EXCEPT ![last_idx + 1] = last_index - 1]
                           EXCEPT ![pos + 1] = usize_MAX],
                      dense |->
                        SubSeq([s.dense EXCEPT
                                  ![dense_index] = s.dense[last_index]],
                               1, last_index - 1),
                      dense_idx |->
                        SubSeq([s.dense_idx EXCEPT
                                  ![dense_index] = s.dense_idx[last_index]],
                               1, last_index - 1) ],
                    Some(s.dense[dense_index]), FALSE)

(* ------------------------------------------------------------------ *)
(* ecs/storage.rs: ComponentStorage                                    *)
(* ------------------------------------------------------------------ *)

\* ComponentStorage::get and get_mut: Some(&self.data[index]) if
\* self.data.contains(index), else None.  ComponentStorage::insert,
\* remove and contains are the operations of the SparseSet themselves.
ComponentStorage_get(data, index) ==
    IF SparseSet_contains(data, index).panicked THEN Result(data, None, TRUE)
    ELSE IF SparseSet_contains(data, index).ret
    THEN SparseSet_index(data, index)
    ELSE Result(data, None, FALSE)

(* ------------------------------------------------------------------ *)
(* ecs/entity.rs: Entity and EntityAllocator                           *)
(* ------------------------------------------------------------------ *)

\* bounds of the ids and generations the allocator hands out
MaxEntities == 2
MaxGeneration == 2

\* EntityAllocator::allocate: <<allocator, entity>>; a freed id is popped
\* and given its current generation, else a new id with generation 0.
\* An Entity is [id, generation]; an allocator [generations, free_ids,
\* next_id].
allocate(a) ==
    IF a.free_ids # << >>
    THEN << [a EXCEPT !.free_ids = SubSeq(@, 1, Len(@) - 1)],
            [ id |-> a.free_ids[Len(a.free_ids)],
              generation |->
                  a.generations[a.free_ids[Len(a.free_ids)] + 1] ] >>
    ELSE << [a EXCEPT !.next_id = @ + 1,
                      !.generations = Append(@, 0)],
            [ id |-> a.next_id, generation |-> 0 ] >>

\* EntityAllocator::is_alive
is_alive(a, entity) ==
    /\ entity.id < Len(a.generations)
    /\ a.generations[entity.id + 1] = entity.generation

\* a deallocate that frees the id and keeps its generation
deallocate_same_generation(a, entity) ==
    IF is_alive(a, entity)
    THEN << [a EXCEPT !.free_ids = Append(@, entity.id)], TRUE >>
    ELSE << a, FALSE >>

\* EntityAllocator::deallocate: <<allocator, returned>>
deallocate(a, entity) ==
    IF is_alive(a, entity)
    THEN << [a EXCEPT !.generations[entity.id + 1] = @ + 1,
                      !.free_ids = Append(@, entity.id)], TRUE >>
    ELSE << a, FALSE >>

(* ------------------------------------------------------------------ *)
(* ecs/world.rs: World                                                 *)
(* ------------------------------------------------------------------ *)

\* A World is [entities, storages]; storages holds the storage of one
\* component type: None until the first insert creates it, then
\* Some(its SparseSet).

\* World::spawn
World_spawn(w) ==
    Result([w EXCEPT !.entities = allocate(w.entities)[1]],
           allocate(w.entities)[2], FALSE)

\* World::despawn: false for a handle that is not alive; else remove the
\* entity's index from every storage (AnyStorage::remove), then deallocate
World_despawn(w, entity) ==
    IF ~is_alive(w.entities, entity) THEN Result(w, FALSE, FALSE)
    ELSE IF w.storages = None
    THEN Result([w EXCEPT !.entities = deallocate(w.entities, entity)[1]],
                deallocate(w.entities, entity)[2], FALSE)
    ELSE IF SparseSet_remove(w.storages[1], entity.id).panicked
    THEN Result(w, FALSE, TRUE)
    ELSE Result([ entities |-> deallocate(w.entities, entity)[1],
                  storages |->
                      Some(SparseSet_remove(w.storages[1], entity.id).set) ],
                deallocate(w.entities, entity)[2], FALSE)

\* the world with the outcome of an operation on its storage
WithStorage(w, result) ==
    Result(IF result.panicked THEN w
           ELSE [w EXCEPT !.storages = Some(result.set)],
           result.ret, result.panicked)

\* World::insert: get_or_create_storage, then ComponentStorage::insert
World_insert(w, entity, component) ==
    IF ~is_alive(w.entities, entity) THEN Result(w, None, FALSE)
    ELSE WithStorage(w,
           SparseSet_insert(IF w.storages = None
                            THEN [ sparse |-> << >>, dense |-> << >>,
                                   dense_idx |-> << >> ]
                            ELSE w.storages[1],
                            entity.id, component))

\* World::remove
World_remove(w, entity) ==
    IF ~is_alive(w.entities, entity) THEN Result(w, None, FALSE)
    ELSE IF w.storages = None THEN Result(w, None, FALSE)
    ELSE WithStorage(w, SparseSet_remove(w.storages[1], entity.id))

\* World::get and World::get_mut
World_get(w, entity) ==
    IF ~is_alive(w.entities, entity) THEN Result(w, None, FALSE)
    ELSE IF w.storages = None THEN Result(w, None, FALSE)
    ELSE WithStorage(w, ComponentStorage_get(w.storages[1], entity.id))

\* World::has
World_has(w, entity) ==
    IF ~is_alive(w.entities, entity) THEN Result(w, FALSE, FALSE)
    ELSE IF w.storages = None THEN Result(w, FALSE, FALSE)
    ELSE WithStorage(w, SparseSet_contains(w.storages[1], entity.id))

\* A World as a caller holds it, from World::new on: w is the World;
\* issued are the handles spawn returned and despawned those for which
\* despawn returned true; call is the latest call.
NewWorld ==
    [ w |-> [ entities |-> [ generations |-> << >>, free_ids |-> << >>,
                             next_id |-> 0 ],
              storages |-> None ],
      issued |-> {}, despawned |-> {}, call |-> "new", panicked |-> FALSE ]

\* A SparseSet as a caller holds it, from SparseSet::new on: set is the
\* SparseSet; live maps the positions inserted and not since removed to
\* the value last inserted.
NewSparse ==
    [ set |-> [ sparse |-> << >>, dense |-> << >>, dense_idx |-> << >> ],
      live |-> << >>, panicked |-> FALSE ]

(* ------------------------------------------------------------------ *)
(* State                                                               *)
(* ------------------------------------------------------------------ *)

VARIABLES
    resources,          \* BnanRenderGraph.resources: handle -> PhysicalResource
    resource_counter,   \* BnanRenderGraph.resource_counter
    passes,             \* BnanRenderGraph.passes
    pending_transfers,  \* BnanRenderGraph.pending_transfers
    current_frame,      \* BnanRenderGraph.current_frame
    render_finished_semaphores, \* length of the image-indexed pool
    in_flight_fences,   \* slot -> signaled?
    transfer_fences,    \* slot -> signaled?
    swapchain_images,   \* BnanSwapchain.images.len()
    image_state,        \* image index -> "free" | "acquired"
    gfx_queue,          \* graphics queue: operations submitted, not yet run
    transfer_busy,      \* slot -> a transfer submission has not completed
    actual_layout,      \* physical image -> the layout it really is in
    panicked,           \* the process died on a panic
    last,               \* what the latest call of execute did
    transfer_age,       \* slot -> graphics submissions since its transfer
    frame_no,           \* frames run by the end-to-end scenario
    helper,             \* a BnanRenderHelper
    circular,           \* a CircularList and the cursor borrowed from it
    world,              \* a World and the record of the calls made on it
    sparse_set          \* a SparseSet and the record of the calls made on it

vars == << resources, resource_counter, passes, pending_transfers,
           current_frame, render_finished_semaphores, in_flight_fences,
           transfer_fences, swapchain_images, image_state, gfx_queue,
           transfer_busy, actual_layout, panicked, last, transfer_age,
           frame_no, helper, circular, world, sparse_set >>

\* the variables of the render graph, its surface and its device
graph_vars == << resources, resource_counter, passes, pending_transfers,
                 current_frame, render_finished_semaphores,
                 in_flight_fences, transfer_fences, swapchain_images,
                 image_state, gfx_queue, transfer_busy, actual_layout,
                 panicked, last, transfer_age, frame_no >>

ImageIndices == 0 .. (MaxImageCount - 1)

SwapchainImageIds == { <<SwapchainHandle, i>> : i \in ImageIndices }

NoExecute ==
    [ outcome |-> "none", returned |-> "none", slot |-> 0,
      image_index |-> 0, submitted |-> FALSE, waited_transfer |-> FALSE,
      consumed_age |-> 0, semaphore_busy |-> FALSE, pool_matched |-> TRUE,
      recreated |-> FALSE, destroyed_in_use |-> FALSE, logs |-> <<>>,
      commands |-> <<>>, presented_layout |-> "none" ]

\* BnanRenderGraph::new with a surface of n images
InitWith(n) ==
    /\ resources = << >>
    /\ resource_counter = 0
    /\ passes = << >>
    /\ pending_transfers = [s \in Slots |-> FALSE]
    /\ current_frame = 0
    /\ render_finished_semaphores = n
    /\ in_flight_fences = [s \in Slots |-> TRUE]
    /\ transfer_fences = [s \in Slots |-> TRUE]
    /\ swapchain_images = n
    /\ image_state = [i \in ImageIndices |-> "free"]
    /\ gfx_queue = << >>
    /\ transfer_busy = [s \in Slots |-> FALSE]
    /\ actual_layout = [id \in SwapchainImageIds |-> "UNDEFINED"]
    /\ panicked = FALSE
    /\ last = NoExecute
    /\ transfer_age = [s \in Slots |-> 0]
    /\ frame_no = 0
    /\ helper = NewHelper
    /\ circular = NewList
    /\ world = NewWorld
    /\ sparse_set = NewSparse

Init == \E n \in ImageCounts : InitWith(n)


(* ------------------------------------------------------------------ *)
(* graph.rs: the registry                                              *)
(* ------------------------------------------------------------------ *)

\* a handle taken from the counter as it stands
ImportedHandleUnstepped(counter) == counter

\* the handle import_render_image issues: the counter is incremented
\* before the handle is taken and once more after
ImportedHandle(counter) ==
    IF counter + 1 <= 1 THEN 1 ELSE counter + 1

\* import_render_image(name, images), called at most limit times
ImportRenderImageUpTo(limit) ==
    /\ ~panicked
    /\ Cardinality(DOMAIN resources \ {SwapchainHandle}) < limit
    /\ LET handle == ImportedHandle(resource_counter)
       IN  /\ resource_counter' = handle + 1
           /\ resources' = (handle :> new_image(handle)) @@ resources
           /\ actual_layout' =
                 [id \in { <<handle, s>> : s \in Slots } |-> "UNDEFINED"]
                 @@ actual_layout
    /\ UNCHANGED << passes, pending_transfers, current_frame,
                    render_finished_semaphores, in_flight_fences,
                    transfer_fences, swapchain_images, image_state,
                    gfx_queue, transfer_busy, panicked, last, transfer_age,
                    frame_no, helper,
                    circular, world, sparse_set >>

ImportRenderImage == ImportRenderImageUpTo(MaxImports)

\* an update that resets the recorded state of every resource
UpdatedResourcesAll(res, handle) ==
    [ g \in DOMAIN res |->
        [ resource |-> "Image",
          current_layout |-> "UNDEFINED",
          current_stage |-> "NONE" ] ]

\* what update_render_image(handle, images) leaves in the registry
UpdatedResources(res, handle) ==
    IF handle \in DOMAIN res
    THEN [res EXCEPT ![handle] =
            [ resource |-> "Image",
              current_layout |-> "UNDEFINED",
              current_stage |-> "NONE" ]]
    ELSE res

\* update_render_image(handle, images): the new backing images are fresh
UpdateRenderImage(handle) ==
    /\ ~panicked
    /\ resources' = UpdatedResources(resources, handle)
    /\ actual_layout' =
          IF handle \in DOMAIN resources
          THEN [id \in { <<handle, s>> : s \in Slots } |-> "UNDEFINED"]
               @@ actual_layout
          ELSE actual_layout
    /\ UNCHANGED << resource_counter, passes, pending_transfers,
                    current_frame, render_finished_semaphores,
                    in_flight_fences, transfer_fences, swapchain_images,
                    image_state, gfx_queue, transfer_busy, panicked, last,
                    transfer_age, frame_no, helper,
                    circular, world, sparse_set >>

\* a lookup that indexes the per-frame array without consulting the registry
get_image_unchecked(res, handle, frame) == Some(<<handle, frame>>)

\* get_image(handle, frame)
get_image(res, handle, frame) ==
    IF handle \notin DOMAIN res THEN None
    ELSE IF res[handle].resource = "Image" THEN Some(<<handle, frame>>)
    ELSE IF res[handle].resource = "SwapchainImage"
    THEN Some(<<SwapchainHandle, res[handle].image>>)
    ELSE None

\* get_images(handle): the whole per-frame array
get_images(res, handle) ==
    IF handle \notin DOMAIN res THEN None
    ELSE IF res[handle].resource = "Image"
    THEN Some([s \in Slots |-> <<handle, s>>])
    ELSE None

\* a previous-frame index that is the current one
prev_frame_current(current, frames) == current % frames

\* let prev_frame = (current_frame + FRAMES_IN_FLIGHT - 1) % FRAMES_IN_FLIGHT
prev_frame(current, frames) == ((current + frames) - 1) % frames

\* get_previous_frame_image(handle, current_frame)
get_previous_frame_image(res, handle, current) ==
    get_image(res, handle, prev_frame(current, FRAMES_IN_FLIGHT))

\* the handles a caller may name: the backbuffer, the first two imports,
\* and one that was never issued
FirstImport == ImportedHandle(0)
SecondImport == ImportedHandle(FirstImport + 1)

\* The passes a caller declares in this model.
ColorResolvePass ==
    RenderPass(<< >>,
               << RenderPassResource(FirstImport, "ColorAttachment",
                                     SwapchainHandle, FALSE) >>)

DepthResolvePass ==
    RenderPass(<< >>,
               << RenderPassResource(FirstImport, "DepthStencilAttachment",
                                     SecondImport, FALSE) >>)

TemporalPass ==
    RenderPass(<< RenderPassResource(FirstImport, "ShaderRead",
                                     NoHandle, TRUE) >>,
               << RenderPassResource(FirstImport, "ColorAttachment",
                                     NoHandle, FALSE) >>)

ComputePass ==
    RenderPass(<< RenderPassResource(SecondImport, "ShaderRead",
                                     NoHandle, FALSE) >>,
               << RenderPassResource(FirstImport, "StorageWrite",
                                     NoHandle, FALSE) >>)

RepeatedHandlePass ==
    RenderPass(<< RenderPassResource(FirstImport, "ShaderRead",
                                     NoHandle, FALSE),
                  RenderPassResource(FirstImport, "ShaderRead",
                                     NoHandle, FALSE) >>,
               << >>)

UnknownHandlePass ==
    RenderPass(<< RenderPassResource(NeverIssued, "ShaderRead",
                                     NoHandle, FALSE) >>,
               << RenderPassResource(SwapchainHandle, "TransferDst",
                                     NoHandle, FALSE) >>)

PassMenu ==
    { ColorResolvePass, DepthResolvePass, TemporalPass, ComputePass,
      RepeatedHandlePass, UnknownHandlePass }

\* add_pass(pass)
AddPass(pass) ==
    /\ ~panicked
    /\ Len(passes) < MaxPasses
    /\ passes' = Append(passes, pass)
    /\ UNCHANGED << resources, resource_counter, pending_transfers,
                    current_frame, render_finished_semaphores,
                    in_flight_fences, transfer_fences, swapchain_images,
                    image_state, gfx_queue, transfer_busy, actual_layout,
                    panicked, last, transfer_age, frame_no, helper,
                    circular, world, sparse_set >>


(* ------------------------------------------------------------------ *)
(* The device and the presentation surface, as the calls use them      *)
(* ------------------------------------------------------------------ *)

\* queue_submit2 on the graphics queue: signals the slot's fence and the
\* semaphore render_finished_semaphores[image_index] when it completes
SubmitOp(slot, image_index, waits_transfer, targets) ==
    [ op |-> "submit", slot |-> slot, image |-> image_index,
      waits_transfer |-> waits_transfer, targets |-> targets,
      current |-> TRUE ]

\* queue_present: waits on render_finished_semaphores[image_index]; the
\* wait is queued also when the surface turns out to be out of date
PresentOp(slot, image_index) ==
    [ op |-> "present", slot |-> slot, image |-> image_index,
      waits_transfer |-> FALSE, targets |-> {}, current |-> TRUE ]

\* fences after every operation of queue q has completed
FencesAfterIdle(q, fences) ==
    [ s \in Slots |->
        fences[s] \/ \E i \in 1 .. Len(q) :
                        q[i].op = "submit" /\ q[i].slot = s ]

\* operations of a replaced swapchain no longer belong to the current one
MarkOld(q) == [ i \in 1 .. Len(q) |-> [q[i] EXCEPT !.current = FALSE] ]

\* BnanSwapchain::recreate_swapchain drops the replaced swapchain and its
\* image views at once: they are still in use if the queue holds an
\* operation on an image of that swapchain
DestroyedInUse(q) == \E i \in 1 .. Len(q) : q[i].current

\* BnanRenderGraph::recreate_swapchain, applied to the state in sw:
\* the surface is rebuilt with n images; the pool is rebuilt after a
\* device_wait_idle only if its length differs from n
RecreateSwapchainOn(sw, n) ==
    LET rebuild == n # sw.pool
    IN  [ pool |-> n,
          images |-> n,
          image_state |-> [i \in ImageIndices |-> "free"],
          queue |-> IF rebuild THEN << >> ELSE MarkOld(sw.queue),
          fences |-> IF rebuild THEN FencesAfterIdle(sw.queue, sw.fences)
                     ELSE sw.fences,
          transfer_fences |-> IF rebuild THEN [s \in Slots |-> TRUE]
                              ELSE sw.transfer_fences,
          transfer_busy |-> IF rebuild THEN [s \in Slots |-> FALSE]
                            ELSE sw.transfer_busy,
          idle_waited |-> rebuild,
          destroyed_in_use |-> DestroyedInUse(sw.queue) ]

\* the part of the state recreate_swapchain works on
SurfaceState(q, fences) ==
    [ pool |-> render_finished_semaphores,
      queue |-> q,
      fences |-> fences,
      transfer_fences |-> transfer_fences,
      transfer_busy |-> transfer_busy ]

\* the images of a new swapchain start in the undefined layout
ResetSwapchainLayouts(actual) ==
    [id \in SwapchainImageIds |-> "UNDEFINED"] @@ actual

(* ------------------------------------------------------------------ *)
(* graph.rs execute(): the pass loop                                   *)
(* ------------------------------------------------------------------ *)

\* a pass loop that runs a pass declared twice in a row only once
RECURSIVE RunPassesDistinct(_, _, _, _, _)
RunPassesDistinct(res, actual, todo, frame_index, logs) ==
    IF todo = << >>
    THEN [ res |-> res, actual |-> actual, failed |-> FALSE, logs |-> logs ]
    ELSE IF logs # << >> /\ logs[Len(logs)].pass = Head(todo)
    THEN RunPassesDistinct(res, actual, Tail(todo), frame_index, logs)
    ELSE LET st == SynthesizePass(res, actual, Head(todo), frame_index)
         IN  IF st.failed
             THEN [ res |-> st.res, actual |-> st.actual, failed |-> TRUE,
                    logs |-> logs ]
             ELSE RunPassesDistinct(st.res, st.actual, Tail(todo),
                                    frame_index,
                                    Append(logs, [ pass |-> Head(todo),
                                                   pre |-> res,
                                                   batch |-> st.batch,
                                                   trace |-> st.trace ]))

\* The pass loop: each pass synthesizes its batch against the registry the
\* previous pass left.  logs keeps, per pass whose batch was recorded and
\* whose callback was invoked, the pass, the registry it started from, its
\* batch and its trace.
RECURSIVE RunPasses(_, _, _, _, _)
RunPasses(res, actual, todo, frame_index, logs) ==
    IF todo = << >>
    THEN [ res |-> res, actual |-> actual, failed |-> FALSE, logs |-> logs ]
    ELSE LET st == SynthesizePass(res, actual, Head(todo), frame_index)
         IN  IF st.failed
             THEN [ res |-> st.res, actual |-> st.actual, failed |-> TRUE,
                    logs |-> logs ]
             ELSE RunPasses(st.res, st.actual, Tail(todo), frame_index,
                            Append(logs, [ pass |-> Head(todo),
                                           pre |-> res,
                                           batch |-> st.batch,
                                           trace |-> st.trace ]))

\* The per-frame copies the uses of a pass touch in a frame, each with the
\* temporal flag of the use that selected it: <<handle, copy, temporal>>.
\* Inputs select images[use_frame]; outputs and resolve targets select
\* images[frame_index].
PassTargets(pass, res, frame_index) ==
    LET image(h) == h \in DOMAIN res /\ res[h].resource = "Image"
    IN  { <<pass.inputs[i].handle,
            UseFrame(pass.inputs[i], frame_index),
            pass.inputs[i].use_previous_frame>> :
            i \in { j \in 1 .. Len(pass.inputs) :
                      image(pass.inputs[j].handle) } }
        \cup
        { <<pass.outputs[i].handle, frame_index, FALSE>> :
            i \in { j \in 1 .. Len(pass.outputs) :
                      image(pass.outputs[j].handle) } }
        \cup
        { <<pass.outputs[i].resolve_target, frame_index, FALSE>> :
            i \in { j \in 1 .. Len(pass.outputs) :
                      image(pass.outputs[j].resolve_target) } }

FrameTargets(todo, res, frame_index) ==
    UNION { PassTargets(todo[p], res, frame_index) : p \in 1 .. Len(todo) }


(* ------------------------------------------------------------------ *)
(* graph.rs execute(): what is recorded into the command buffer        *)
(* ------------------------------------------------------------------ *)

\* the image behind a handle at attachment time: Some(image) if the
\* registry holds the handle and the resource is an image
ImageGuard(res, handle, frame_index) ==
    IF handle \in DOMAIN res
       /\ res[handle].resource \in {"SwapchainImage", "Image"}
    THEN Some(PhysicalImage(handle, res[handle], frame_index))
    ELSE None

\* .resolve_mode(..) of a color attachment and of a depth attachment
ColorResolveMode == "AVERAGE"

\* a depth attachment given the resolve mode of a color attachment
DepthResolveModeAverage == "AVERAGE"

DepthResolveMode == "MAX"

\* the vk::RenderingAttachmentInfo built for an output whose image was
\* found; the resolve fields are set only if the resolve target was found
AttachmentInfo(image, resolve, layout, mode) ==
    [ image_view |-> image[1],
      image_layout |-> layout,
      resolve_image_view |-> resolve,
      resolve_image_layout |-> IF resolve = None THEN "UNDEFINED"
                               ELSE layout,
      resolve_mode |-> IF resolve = None THEN "NONE" ELSE mode ]

\* the attachments with one more output looked at
WithOutput(acc, output, image, resolve) ==
    IF output.layout = "COLOR_ATTACHMENT_OPTIMAL" /\ image # None
    THEN [acc EXCEPT
            !.color_attachments =
                Append(@, AttachmentInfo(image, resolve,
                                         "COLOR_ATTACHMENT_OPTIMAL",
                                         ColorResolveMode)),
            !.is_dynamic_rendering = TRUE]
    ELSE IF output.layout = "DEPTH_STENCIL_ATTACHMENT_OPTIMAL"
            /\ image # None
    THEN [acc EXCEPT
            !.depth_attachment =
                Some(AttachmentInfo(image, resolve,
                                    "DEPTH_STENCIL_ATTACHMENT_OPTIMAL",
                                    DepthResolveMode)),
            !.is_dynamic_rendering = TRUE]
    ELSE acc

\* the loop over pass.outputs that collects the attachments:
\* color attachments are pushed, a later depth attachment replaces an
\* earlier one
RECURSIVE Attachments(_, _, _, _)
Attachments(res, outputs, frame_index, acc) ==
    IF outputs = << >> THEN acc
    ELSE Attachments(res, Tail(outputs), frame_index,
                     WithOutput(acc, Head(outputs),
                                ImageGuard(res, Head(outputs).handle,
                                           frame_index),
                                ImageGuard(res, Head(outputs).resolve_target,
                                           frame_index)))

NoAttachments ==
    [ color_attachments |-> << >>, depth_attachment |-> None,
      is_dynamic_rendering |-> FALSE ]

\* the commands of one pass with the batch recorded after the callback,
\* inside the rendering scope
CommandsLate(entry, att) ==
    (IF att.is_dynamic_rendering
     THEN << [cmd |-> "begin_rendering",
              color_attachments |-> att.color_attachments,
              depth_attachment |-> att.depth_attachment] >>
     ELSE << >>)
    \o << [cmd |-> "callback", pass |-> entry.pass] >>
    \o (IF entry.batch = << >> THEN << >>
        ELSE << [cmd |-> "pipeline_barrier", barriers |-> entry.batch] >>)
    \o (IF att.is_dynamic_rendering
        THEN << [cmd |-> "end_rendering"] >>
        ELSE << >>)

\* What one iteration of the pass loop records, in order, given the
\* attachments of the pass: the batch as one pipeline barrier (nothing for
\* an empty batch), the rendering scope if the pass has attachments, the
\* callback inside it.
Commands(entry, att) ==
    (IF entry.batch = << >> THEN << >>
     ELSE << [cmd |-> "pipeline_barrier", barriers |-> entry.batch] >>)
    \o (IF att.is_dynamic_rendering
        THEN << [cmd |-> "begin_rendering",
                 color_attachments |-> att.color_attachments,
                 depth_attachment |-> att.depth_attachment] >>
        ELSE << >>)
    \o << [cmd |-> "callback", pass |-> entry.pass] >>
    \o (IF att.is_dynamic_rendering
        THEN << [cmd |-> "end_rendering"] >>
        ELSE << >>)

\* the commands of one pass of the frame
PassCommands(entry, frame_index) ==
    Commands(entry, Attachments(entry.pre, entry.pass.outputs, frame_index,
                                NoAttachments))

\* the commands of the passes that ran, pass after pass
RECURSIVE FrameCommands(_, _)
FrameCommands(logs, frame_index) ==
    IF logs = << >> THEN << >>
    ELSE PassCommands(Head(logs), frame_index)
         \o FrameCommands(Tail(logs), frame_index)

\* a final barrier that leaves the image in its recorded layout
FinalBarrierKept(res, image_index) ==
    build_image_transition_barrier(
        <<SwapchainHandle, image_index>>,
        res[SwapchainHandle].current_layout,
        res[SwapchainHandle].current_layout)

\* the barrier built after the pass loop: the acquired image from its
\* recorded layout to the present layout
FinalBarrier(res, image_index) ==
    build_image_transition_barrier(
        <<SwapchainHandle, image_index>>,
        res[SwapchainHandle].current_layout,
        "PRESENT_SRC_KHR")

\* the final barrier and the end of the command buffer
FinalCommands(final) ==
    << [cmd |-> "pipeline_barrier", barriers |-> << final >>],
       [cmd |-> "end_command_buffer"] >>

\* the command buffer of a call of execute with result r: the commands of
\* the passes that ran and, in a frame that went on to submit, the final
\* barrier and the end of the command buffer
RecordedCommands(r) ==
    FrameCommands(r.last.logs, r.last.slot)
    \o (IF r.last.submitted
        THEN FinalCommands(FinalBarrier(r.resources, r.last.image_index))
        ELSE << >>)

(* ------------------------------------------------------------------ *)
(* graph.rs execute(): one frame                                       *)
(* ------------------------------------------------------------------ *)

\* a frame begin that does not wait for the slot's fence
FenceWaitSkipped(slot) == TRUE

\* wait_for_fences on the slot's in-flight fence returns
FenceWaitReturns(slot) == in_flight_fences[slot]

\* the index of the semaphore a frame signals and its present waits on
SignalSemaphoreIndex(slot, image_index) == image_index

\* a submission clearing every slot's pending flag
ConsumePendingAll(pending, slot) == [s \in Slots |-> FALSE]

\* a submission leaving the pending flag set
ConsumePendingNone(pending, slot) == pending

\* pending_transfers[current_frame] = false, once the wait is attached
ConsumePending(pending, slot) == [pending EXCEPT ![slot] = FALSE]

\* a slot index that is not advanced
NextFrameStuck(slot) == slot

\* a slot index that falls back to the first slot
NextFrameFirst(slot) == 0

\* self.current_frame = (self.current_frame + 1) % FRAMES_IN_FLIGHT
NextFrame(slot) == (slot + 1) % FRAMES_IN_FLIGHT

\* a signal of semaphore k is still waiting to be consumed by a present
SemaphoreBusy(q, k) ==
    \E i \in 1 .. Len(q) : q[i].op = "present" /\ q[i].image = k

\* graphics submissions counted against every slot with a pending transfer
AgedTransfers(age, pending) ==
    [ s \in Slots |->
        IF pending[s] /\ age[s] <= FRAMES_IN_FLIGHT
        THEN age[s] + 1 ELSE age[s] ]

\* a stale acquisition that also takes the slot's pending transfer
SkippedFrameConsuming(same, sw) ==
    [same EXCEPT
       !.pending_transfers[same.current_frame] = FALSE,
       !.render_finished_semaphores = sw.pool,
       !.in_flight_fences = sw.fences,
       !.transfer_fences = sw.transfer_fences,
       !.swapchain_images = sw.images,
       !.image_state = sw.image_state,
       !.gfx_queue = sw.queue,
       !.transfer_busy = sw.transfer_busy,
       !.actual_layout = ResetSwapchainLayouts(same.actual_layout),
       !.last.outcome = "acquire_stale",
       !.last.returned = "Ok",
       !.last.recreated = TRUE,
       !.last.destroyed_in_use = sw.destroyed_in_use]

\* Err(ERROR_OUT_OF_DATE_KHR) of the acquisition: recreate_swapchain()?;
\* return Ok(()).  same is the state after the fence wait and reset, sw
\* the recreated surface.
SkippedFrame(same, sw) ==
    [same EXCEPT
       !.render_finished_semaphores = sw.pool,
       !.in_flight_fences = sw.fences,
       !.transfer_fences = sw.transfer_fences,
       !.swapchain_images = sw.images,
       !.image_state = sw.image_state,
       !.gfx_queue = sw.queue,
       !.transfer_busy = sw.transfer_busy,
       !.actual_layout = ResetSwapchainLayouts(same.actual_layout),
       !.last.outcome = "acquire_stale",
       !.last.returned = "Ok",
       !.last.recreated = TRUE,
       !.last.destroyed_in_use = sw.destroyed_in_use]

\* The state execute() leaves, as a record of the new values.
\*   acq            what acquire_next_image returned: [stale, index], stale
\*                  for ERROR_OUT_OF_DATE_KHR
\*   present_stale  queue_present returned ERROR_OUT_OF_DATE_KHR
\*   n              the image count of a surface rebuilt in this call
ExecuteResult(acq, present_stale, n) ==
    LET slot == current_frame
        fences1 == [in_flight_fences EXCEPT ![slot] = FALSE]
        same == [ resources |-> resources,
                  pending_transfers |-> pending_transfers,
                  current_frame |-> slot,
                  render_finished_semaphores |-> render_finished_semaphores,
                  in_flight_fences |-> fences1,
                  transfer_fences |-> transfer_fences,
                  swapchain_images |-> swapchain_images,
                  image_state |-> image_state,
                  gfx_queue |-> gfx_queue,
                  transfer_busy |-> transfer_busy,
                  actual_layout |-> actual_layout,
                  panicked |-> FALSE,
                  transfer_age |-> transfer_age,
                  last |-> [NoExecute EXCEPT !.slot = slot] ]
    IN
    IF acq.stale
    THEN SkippedFrame(same,
                      RecreateSwapchainOn(SurfaceState(gfx_queue, fences1),
                                          n))
    ELSE
      LET image_index == acq.index
          res0 == (SwapchainHandle :> swapchain_physical(image_index))
                  @@ resources
          run == RunPasses(res0, actual_layout, passes, slot, << >>)
          final == FinalBarrier(run.res, image_index)
          waits == pending_transfers[slot]
          k == SignalSemaphoreIndex(slot, image_index)
          rec == [same EXCEPT
                    !.resources = run.res,
                    !.last.image_index = image_index,
                    !.last.logs = run.logs]
      IN
      IF run.failed
      THEN \* transition_image_layout(..).unwrap() panicked
           [rec EXCEPT !.panicked = TRUE,
                       !.last.outcome = "panic_transition",
                       !.last.returned = "panic"]
      ELSE IF ~final.ok
      THEN \* the final transition failed: return Err
           [rec EXCEPT !.last.outcome = "error", !.last.returned = "Err"]
      ELSE IF k >= render_finished_semaphores
      THEN \* render_finished_semaphores[image_index]: index out of bounds
           [rec EXCEPT
              !.pending_transfers = ConsumePending(pending_transfers, slot),
              !.panicked = TRUE,
              !.last.outcome = "panic_index",
              !.last.returned = "panic"]
      ELSE
        LET q == gfx_queue
                 \o << SubmitOp(slot, k, waits,
                                FrameTargets(passes, res0, slot)),
                       PresentOp(slot, k) >>
            done == [rec EXCEPT
                       !.pending_transfers =
                            ConsumePending(pending_transfers, slot),
                       !.current_frame = NextFrame(slot),
                       !.image_state[image_index] = "acquired",
                       !.gfx_queue = q,
                       !.actual_layout =
                            [run.actual EXCEPT
                               ![<<SwapchainHandle, image_index>>] =
                                   final.new_layout],
                       !.transfer_age =
                            AgedTransfers(transfer_age, pending_transfers),
                       !.last.submitted = TRUE,
                       !.last.returned = "Ok",
                       !.last.presented_layout = final.new_layout,
                       !.last.pool_matched =
                            (render_finished_semaphores = swapchain_images),
                       !.last.waited_transfer = waits,
                       !.last.consumed_age = transfer_age[slot],
                       !.last.semaphore_busy = SemaphoreBusy(gfx_queue, k),
                       !.last.outcome = "ok"]
        IN
        IF present_stale
        THEN LET sw == RecreateSwapchainOn(SurfaceState(q, fences1), n)
             IN  [done EXCEPT
                    !.render_finished_semaphores = sw.pool,
                    !.in_flight_fences = sw.fences,
                    !.transfer_fences = sw.transfer_fences,
                    !.swapchain_images = sw.images,
                    !.image_state = sw.image_state,
                    !.gfx_queue = sw.queue,
                    !.transfer_busy = sw.transfer_busy,
                    !.actual_layout = ResetSwapchainLayouts(done.actual_layout),
                    !.last.outcome = "present_stale",
                    !.last.recreated = TRUE,
                    !.last.destroyed_in_use = sw.destroyed_in_use]
        ELSE done

\* what acquire_next_image can return in the current state
Acquired ==
    { [stale |-> FALSE, index |-> i] :
        i \in { j \in 0 .. (swapchain_images - 1) : image_state[j] = "free" } }

AcquireOutcomes == Acquired \cup { [stale |-> TRUE, index |-> 0] }

\* execute() with its results drawn from the given sets
ExecuteWith(acquired, present_results) ==
    /\ ~panicked
    /\ FenceWaitReturns(current_frame)
    /\ \E acq \in acquired, present_stale \in present_results,
          n \in ImageCounts :
         LET r == ExecuteResult(acq, present_stale, n)
         IN  /\ resources' = r.resources
             /\ pending_transfers' = r.pending_transfers
             /\ current_frame' = r.current_frame
             /\ render_finished_semaphores' = r.render_finished_semaphores
             /\ in_flight_fences' = r.in_flight_fences
             /\ transfer_fences' = r.transfer_fences
             /\ swapchain_images' = r.swapchain_images
             /\ image_state' = r.image_state
             /\ gfx_queue' = r.gfx_queue
             /\ transfer_busy' = r.transfer_busy
             /\ actual_layout' = r.actual_layout
             /\ panicked' = r.panicked
             /\ transfer_age' = r.transfer_age
             /\ last' = [r.last EXCEPT !.commands = RecordedCommands(r)]
    /\ UNCHANGED << resource_counter, passes, helper, circular, world, sparse_set >>

\* execute()
Execute ==
    /\ ExecuteWith(AcquireOutcomes, BOOLEAN)
    /\ UNCHANGED frame_no


(* ------------------------------------------------------------------ *)
(* graph.rs: recreate_swapchain, submit_transfer_work                  *)
(* ------------------------------------------------------------------ *)

\* recreate_swapchain() called by the application
RecreateSwapchain ==
    /\ ~panicked
    /\ \E n \in ImageCounts :
         LET sw == RecreateSwapchainOn(
                      SurfaceState(gfx_queue, in_flight_fences), n)
         IN  /\ render_finished_semaphores' = sw.pool
             /\ in_flight_fences' = sw.fences
             /\ transfer_fences' = sw.transfer_fences
             /\ swapchain_images' = sw.images
             /\ image_state' = sw.image_state
             /\ gfx_queue' = sw.queue
             /\ transfer_busy' = sw.transfer_busy
    /\ actual_layout' = ResetSwapchainLayouts(actual_layout)
    /\ UNCHANGED << resources, resource_counter, passes, pending_transfers,
                    current_frame, panicked, last, transfer_age, frame_no, helper,
                    circular, world, sparse_set >>

\* submit_transfer_work(frame, commands): waits on and resets the slot's
\* transfer fence, submits to the transfer queue, sets the pending flag
SubmitTransferWork(frame) ==
    /\ ~panicked
    /\ transfer_fences[frame]
    /\ transfer_fences' = [transfer_fences EXCEPT ![frame] = FALSE]
    /\ transfer_busy' = [transfer_busy EXCEPT ![frame] = TRUE]
    /\ pending_transfers' = [pending_transfers EXCEPT ![frame] = TRUE]
    /\ transfer_age' = [transfer_age EXCEPT ![frame] = 0]
    /\ UNCHANGED << resources, resource_counter, passes, current_frame,
                    render_finished_semaphores, in_flight_fences,
                    swapchain_images, image_state, gfx_queue, actual_layout,
                    panicked, last, frame_no, helper,
                    circular, world, sparse_set >>

(* ------------------------------------------------------------------ *)
(* bnan_swapchain.rs: the resize observer                              *)
(* ------------------------------------------------------------------ *)

\* WindowObserver::update of BnanSwapchain: queue_wait_idle on the graphics
\* queue, then recreate_swapchain(extent); the graph's pool is not touched
WindowResize ==
    /\ ~panicked
    /\ \E n \in ImageCounts : swapchain_images' = n
    /\ in_flight_fences' = FencesAfterIdle(gfx_queue, in_flight_fences)
    /\ gfx_queue' = << >>
    /\ transfer_busy' =
          [ s \in Slots |->
              transfer_busy[s]
              /\ ~\E i \in 1 .. Len(gfx_queue) :
                    /\ gfx_queue[i].op = "submit"
                    /\ gfx_queue[i].slot = s
                    /\ gfx_queue[i].waits_transfer ]
    /\ transfer_fences' =
          [ s \in Slots |-> transfer_fences[s] \/ ~transfer_busy'[s] ]
    /\ image_state' = [i \in ImageIndices |-> "free"]
    /\ actual_layout' = ResetSwapchainLayouts(actual_layout)
    /\ UNCHANGED << resources, resource_counter, passes, pending_transfers,
                    current_frame, render_finished_semaphores, panicked,
                    last, transfer_age, frame_no, helper,
                    circular, world, sparse_set >>

(* ------------------------------------------------------------------ *)
(* The device at work                                                  *)
(* ------------------------------------------------------------------ *)

\* The graphics queue runs its oldest operation.  A submission that waits
\* on a transfer semaphore runs once that transfer has completed; it then
\* signals the slot's fence.  A present consumes its semaphore and hands
\* the image back to the surface it belongs to.
GpuStep ==
    /\ gfx_queue # << >>
    /\ LET head == Head(gfx_queue)
       IN  /\ head.waits_transfer => ~transfer_busy[head.slot]
           /\ in_flight_fences' =
                 IF head.op = "submit"
                 THEN [in_flight_fences EXCEPT ![head.slot] = TRUE]
                 ELSE in_flight_fences
           /\ image_state' =
                 IF head.op = "present" /\ head.current
                 THEN [image_state EXCEPT ![head.image] = "free"]
                 ELSE image_state
    /\ gfx_queue' = Tail(gfx_queue)
    /\ UNCHANGED << resources, resource_counter, passes, pending_transfers,
                    current_frame, render_finished_semaphores,
                    transfer_fences, swapchain_images, transfer_busy,
                    actual_layout, panicked, last, transfer_age, frame_no, helper,
                    circular, world, sparse_set >>

\* The transfer queue completes the submission made against a slot: its
\* semaphore and its fence are signaled.
TransferStep(slot) ==
    /\ transfer_busy[slot]
    /\ transfer_busy' = [transfer_busy EXCEPT ![slot] = FALSE]
    /\ transfer_fences' = [transfer_fences EXCEPT ![slot] = TRUE]
    /\ UNCHANGED << resources, resource_counter, passes, pending_transfers,
                    current_frame, render_finished_semaphores,
                    in_flight_fences, swapchain_images, image_state,
                    gfx_queue, actual_layout, panicked, last, transfer_age,
                    frame_no, helper,
                    circular, world, sparse_set >>

(* ------------------------------------------------------------------ *)
(* Specifications                                                      *)
(* ------------------------------------------------------------------ *)

\* execute() while the surface stays current
Frame ==
    /\ ExecuteWith(Acquired, {FALSE})
    /\ UNCHANGED frame_no

\* execute() whose present succeeds (acquisition may report staleness)
FrameOrStaleAcquire ==
    /\ ExecuteWith(AcquireOutcomes, {FALSE})
    /\ UNCHANGED frame_no

\* Spec: the registry and barrier synthesis.  A caller imports, updates,
\* declares passes and runs frames on a surface that stays current.
Next ==
    \/ ImportRenderImage
    \/ \E h \in {FirstImport, SecondImport} : UpdateRenderImage(h)
    \/ \E p \in PassMenu : AddPass(p)
    \/ Frame
    \/ GpuStep

Spec == InitWith(MinImageCount) /\ [][Next]_vars

\* SpecSurface: frames against a surface that goes stale, is resized and
\* is recreated, with no passes declared.
NextSurface ==
    \/ Execute
    \/ RecreateSwapchain
    \/ WindowResize
    \/ GpuStep

SpecSurface == Init /\ [][NextSurface]_vars

\* SpecTransfer: frames interleaved with asynchronous transfer submissions.
NextTransfer ==
    \/ FrameOrStaleAcquire
    \/ \E s \in Slots : SubmitTransferWork(s)
    \/ GpuStep
    \/ \E s \in Slots : TransferStep(s)

SpecTransfer == InitWith(MinImageCount) /\ [][NextTransfer]_vars

\* SpecE2E: one imported image, one pass writing it as ColorAttachment
\* with the backbuffer as resolve target, MaxFrames frames, no resize and
\* no staleness.
InitE2E ==
    \E n \in ImageCounts :
      /\ resources = (FirstImport :> new_image(FirstImport))
      /\ resource_counter = FirstImport + 1
      /\ passes = << ColorResolvePass >>
      /\ pending_transfers = [s \in Slots |-> FALSE]
      /\ current_frame = 0
      /\ render_finished_semaphores = n
      /\ in_flight_fences = [s \in Slots |-> TRUE]
      /\ transfer_fences = [s \in Slots |-> TRUE]
      /\ swapchain_images = n
      /\ image_state = [i \in ImageIndices |-> "free"]
      /\ gfx_queue = << >>
      /\ transfer_busy = [s \in Slots |-> FALSE]
      /\ actual_layout =
            [id \in SwapchainImageIds
                    \cup { <<FirstImport, s>> : s \in Slots } |-> "UNDEFINED"]
      /\ panicked = FALSE
      /\ last = NoExecute
      /\ transfer_age = [s \in Slots |-> 0]
      /\ frame_no = 0
      /\ helper = NewHelper
      /\ circular = NewList
      /\ world = NewWorld
      /\ sparse_set = NewSparse

E2EFrame ==
    /\ frame_no < MaxFrames
    /\ ExecuteWith(Acquired, {FALSE})
    /\ frame_no' = frame_no + 1

NextE2E ==
    \/ E2EFrame
    \/ GpuStep

SpecE2E == InitE2E /\ [][NextE2E]_vars


\* the state after new(), the first two imports and the add_pass calls
\* that declare the given passes
InitDeclared(declared) ==
    /\ resources = (FirstImport :> new_image(FirstImport))
                    @@ (SecondImport :> new_image(SecondImport))
    /\ resource_counter = SecondImport + 1
    /\ passes = declared
    /\ pending_transfers = [s \in Slots |-> FALSE]
    /\ current_frame = 0
    /\ render_finished_semaphores = MinImageCount
    /\ in_flight_fences = [s \in Slots |-> TRUE]
    /\ transfer_fences = [s \in Slots |-> TRUE]
    /\ swapchain_images = MinImageCount
    /\ image_state = [i \in ImageIndices |-> "free"]
    /\ gfx_queue = << >>
    /\ transfer_busy = [s \in Slots |-> FALSE]
    /\ actual_layout =
          [id \in SwapchainImageIds
                  \cup { <<h, s>> : h \in {FirstImport, SecondImport},
                                    s \in Slots } |-> "UNDEFINED"]
    /\ panicked = FALSE
    /\ last = NoExecute
    /\ transfer_age = [s \in Slots |-> 0]
    /\ frame_no = 0
    /\ helper = NewHelper
    /\ circular = NewList
    /\ world = NewWorld
    /\ sparse_set = NewSparse

\* SpecPasses: a caller that imported two images and declared up to
\* MaxDeclared passes, then runs frames.
ReadWritePass ==
    RenderPass(<< RenderPassResource(FirstImport, "ShaderRead",
                                     NoHandle, FALSE) >>,
               << RenderPassResource(FirstImport, "ColorAttachment",
                                     NoHandle, FALSE) >>)

PassLists ==
    UNION { [1 .. k -> PassMenu \cup {ReadWritePass}] :
              k \in 1 .. MaxDeclared }

InitPasses == \E declared \in PassLists : InitDeclared(declared)

NextPasses ==
    \/ Frame
    \/ GpuStep

SpecPasses == InitPasses /\ [][NextPasses]_vars

\* SpecRegistry: a caller that declared one pass, then imports, updates,
\* recreates the surface and runs frames.
InitRegistry ==
    /\ resources = << >>
    /\ resource_counter = 0
    /\ passes = << ColorResolvePass >>
    /\ pending_transfers = [s \in Slots |-> FALSE]
    /\ current_frame = 0
    /\ render_finished_semaphores = MinImageCount
    /\ in_flight_fences = [s \in Slots |-> TRUE]
    /\ transfer_fences = [s \in Slots |-> TRUE]
    /\ swapchain_images = MinImageCount
    /\ image_state = [i \in ImageIndices |-> "free"]
    /\ gfx_queue = << >>
    /\ transfer_busy = [s \in Slots |-> FALSE]
    /\ actual_layout = [id \in SwapchainImageIds |-> "UNDEFINED"]
    /\ panicked = FALSE
    /\ last = NoExecute
    /\ transfer_age = [s \in Slots |-> 0]
    /\ frame_no = 0
    /\ helper = NewHelper
    /\ circular = NewList
    /\ world = NewWorld
    /\ sparse_set = NewSparse

\* recreate_swapchain() on a surface that reports the image count it had
\* (SpecSurface covers the recreations that change it)
RecreateSameCount ==
    /\ RecreateSwapchain
    /\ swapchain_images' = swapchain_images

NextRegistry ==
    \/ ImportRenderImageUpTo(MaxRegistered)
    \/ \E h \in {FirstImport, SecondImport, NeverIssued} :
          UpdateRenderImage(h)
    \/ Frame
    \/ RecreateSameCount
    \/ GpuStep

SpecRegistry == InitRegistry /\ [][NextRegistry]_vars


\* SpecHelper: a caller of a BnanRenderHelper that calls begin_frame and
\* end_frame in any order while the device completes the submissions.
HelperAcquireOutcomes ==
    { [stale |-> FALSE, index |-> i] : i \in 0 .. (MinImageCount - 1) }
    \cup { [stale |-> TRUE, index |-> 0] }

\* begin_frame(); the fence wait returns once the fence is signaled
BeginFrame ==
    /\ helper.current_frame < MaxFrames
    /\ helper.is_frame_started
       \/ helper.render_fences[helper.current_frame_index]
    /\ \E acq \in HelperAcquireOutcomes : helper' = begin_frame(helper, acq)
    /\ UNCHANGED << graph_vars, circular, world, sparse_set >>

\* end_frame(command_buffer)
EndFrame ==
    /\ helper.current_frame < MaxFrames
    /\ \E present_stale \in BOOLEAN :
          helper' = end_frame(helper, present_stale)
    /\ UNCHANGED << graph_vars, circular, world, sparse_set >>

\* the device completes the submission of a slot and signals its fence
HelperGpuStep ==
    /\ \E s \in Slots :
         /\ helper.work[s] = "executing"
         /\ helper' = [helper EXCEPT !.work[s] = "complete",
                                     !.render_fences[s] = TRUE]
    /\ UNCHANGED << graph_vars, circular, world, sparse_set >>

NextHelper ==
    \/ BeginFrame
    \/ EndFrame
    \/ HelperGpuStep

SpecHelper == InitWith(MinImageCount) /\ [][NextHelper]_vars

\* SpecList: a caller of a CircularList that pushes values, borrows a
\* cursor, rotates it, removes and inserts through it, and drops it.
PushFront ==
    /\ ~circular.borrowed
    /\ Len(circular.items) < MaxListLen
    /\ \E v \in 1 .. MaxListLen :
         circular' = [push_front(circular, v) EXCEPT !.op = "push_front"]
    /\ UNCHANGED << graph_vars, helper, world, sparse_set >>

PushBack ==
    /\ ~circular.borrowed
    /\ Len(circular.items) < MaxListLen
    /\ \E v \in 1 .. MaxListLen :
         circular' = [push_back(circular, v) EXCEPT !.op = "push_back"]
    /\ UNCHANGED << graph_vars, helper, world, sparse_set >>

CursorMut ==
    /\ ~circular.borrowed
    /\ circular' = [cursor_mut(circular) EXCEPT !.op = "cursor_mut"]
    /\ UNCHANGED << graph_vars, helper, world, sparse_set >>

\* the cursor goes out of scope
DropCursor ==
    /\ circular.borrowed
    /\ circular' = [circular EXCEPT !.borrowed = FALSE, !.cursor = 0,
                                    !.op = "drop"]
    /\ UNCHANGED << graph_vars, helper, world, sparse_set >>

RotateNext ==
    /\ circular.borrowed
    /\ circular' = [rotate_next(circular) EXCEPT !.op = "rotate_next"]
    /\ UNCHANGED << graph_vars, helper, world, sparse_set >>

RotatePrev ==
    /\ circular.borrowed
    /\ circular' = [rotate_prev(circular) EXCEPT !.op = "rotate_prev"]
    /\ UNCHANGED << graph_vars, helper, world, sparse_set >>

RemoveCurrent ==
    /\ circular.borrowed
    /\ circular' = [remove_current(circular) EXCEPT !.op = "remove_current"]
    /\ UNCHANGED << graph_vars, helper, world, sparse_set >>

InsertAfter ==
    /\ circular.borrowed
    /\ Len(circular.items) < MaxListLen
    /\ \E v \in 1 .. MaxListLen :
         circular' = [insert_after(circular, v) EXCEPT !.op = "insert_after"]
    /\ UNCHANGED << graph_vars, helper, world, sparse_set >>

InsertBefore ==
    /\ circular.borrowed
    /\ Len(circular.items) < MaxListLen
    /\ \E v \in 1 .. MaxListLen :
         circular' =
            [insert_before(circular, v) EXCEPT !.op = "insert_before"]
    /\ UNCHANGED << graph_vars, helper, world, sparse_set >>

NextList ==
    \/ PushFront
    \/ PushBack
    \/ CursorMut
    \/ DropCursor
    \/ RotateNext
    \/ RotatePrev
    \/ RemoveCurrent
    \/ InsertAfter
    \/ InsertBefore

SpecList == InitWith(MinImageCount) /\ [][NextList]_vars

\* SpecUsage: a caller that declared one pass with one use of the first
\* import, of any usage, as input or as output, and runs frames.
UsagePass(usage, as_output) ==
    LET use == RenderPassResource(FirstImport, usage, NoHandle, FALSE)
    IN  IF as_output THEN RenderPass(<< >>, << use >>)
        ELSE RenderPass(<< use >>, << >>)

InitUsage ==
    \E usage \in ResourceUsage, as_output \in BOOLEAN :
        InitDeclared(<< UsagePass(usage, as_output) >>)

SpecUsage == InitUsage /\ [][NextPasses]_vars

\* SpecStale: a caller that imported two images and declared one pass,
\* then runs frames whose acquisition may report staleness, interleaved
\* with asynchronous transfer submissions.
InitStale == InitDeclared(<< ColorResolvePass >>)

NextStale ==
    \/ FrameOrStaleAcquire
    \/ \E s \in Slots : SubmitTransferWork(s)
    \/ GpuStep
    \/ \E s \in Slots : TransferStep(s)

SpecStale == InitStale /\ [][NextStale]_vars

\* SpecTemporal: a caller that imported two images and declared one pass
\* with one use of the first import, as input or as output, with or
\* without the previous-frame flag, then runs frames.
TemporalUsePass(usage, temporal, as_output) ==
    LET use == RenderPassResource(FirstImport, usage, NoHandle, temporal)
    IN  IF as_output THEN RenderPass(<< >>, << use >>)
        ELSE RenderPass(<< use >>, << >>)

InitTemporal ==
    \E usage \in ResourceUsage, temporal \in BOOLEAN, as_output \in BOOLEAN :
        InitDeclared(<< TemporalUsePass(usage, temporal, as_output) >>)

SpecTemporal == InitTemporal /\ [][NextPasses]_vars

\* SpecSurfaceFair: SpecSurface on a device that eventually completes
\* the work handed to its graphics queue.
SpecSurfaceFair == SpecSurface /\ WF_vars(GpuStep)

\* SpecPair: a caller that imported two images and declared two passes,
\* each with one output on the first import, of any two usages, then runs
\* frames.
InitPair ==
    \E u1 \in ResourceUsage, u2 \in ResourceUsage :
        InitDeclared(<< UsagePass(u1, TRUE), UsagePass(u2, TRUE) >>)

SpecPair == InitPair /\ [][NextPasses]_vars

\* SpecSparse: a caller of a SparseSet that inserts and removes values at
\* positions.
SparseInsert ==
    /\ ~sparse_set.panicked
    /\ \E pos \in 0 .. MaxPos, elem \in 1 .. MaxValue :
         LET r == SparseSet_insert(sparse_set.set, pos, elem)
         IN  sparse_set' =
               [ set |-> r.set,
                 live |-> [ p \in DOMAIN sparse_set.live \cup {pos} |->
                              IF p = pos THEN elem ELSE sparse_set.live[p] ],
                 panicked |-> r.panicked ]
    /\ UNCHANGED << graph_vars, helper, circular, world >>

SparseRemove ==
    /\ ~sparse_set.panicked
    /\ \E pos \in 0 .. MaxPos :
         LET r == SparseSet_remove(sparse_set.set, pos)
         IN  sparse_set' =
               [ set |-> r.set,
                 live |-> [ p \in DOMAIN sparse_set.live \ {pos} |->
                              sparse_set.live[p] ],
                 panicked |-> r.panicked ]
    /\ UNCHANGED << graph_vars, helper, circular, world >>

NextSparse ==
    \/ SparseInsert
    \/ SparseRemove

SpecSparse == InitWith(MinImageCount) /\ [][NextSparse]_vars

\* SpecWorld: a caller of a World that spawns entities and uses the
\* handles it was given, stale ones included, with components of one
\* type.
Spawn ==
    /\ ~world.panicked
    /\ world.w.entities.free_ids # << >>
       \/ world.w.entities.next_id < MaxEntities
    /\ world' = [world EXCEPT
                   !.w = World_spawn(world.w).set,
                   !.issued = @ \cup { World_spawn(world.w).ret },
                   !.call = "spawn"]
    /\ UNCHANGED << graph_vars, helper, circular, sparse_set >>

Despawn ==
    /\ ~world.panicked
    /\ \E entity \in world.issued :
         /\ world.w.entities.generations[entity.id + 1] < MaxGeneration
         /\ LET r == World_despawn(world.w, entity)
            IN  world' = [world EXCEPT
                            !.w = r.set,
                            !.despawned = IF r.ret THEN @ \cup {entity} ELSE @,
                            !.call = "despawn",
                            !.panicked = r.panicked]
    /\ UNCHANGED << graph_vars, helper, circular, sparse_set >>

Insert ==
    /\ ~world.panicked
    /\ \E entity \in world.issued :
         LET r == World_insert(world.w, entity, "component")
         IN  world' = [world EXCEPT !.w = r.set, !.call = "insert",
                                    !.panicked = r.panicked]
    /\ UNCHANGED << graph_vars, helper, circular, sparse_set >>

Remove ==
    /\ ~world.panicked
    /\ \E entity \in world.issued :
         LET r == World_remove(world.w, entity)
         IN  world' = [world EXCEPT !.w = r.set, !.call = "remove",
                                    !.panicked = r.panicked]
    /\ UNCHANGED << graph_vars, helper, circular, sparse_set >>

Get ==
    /\ ~world.panicked
    /\ \E entity \in world.issued :
         LET r == World_get(world.w, entity)
         IN  world' = [world EXCEPT !.w = r.set, !.call = "get",
                                    !.panicked = r.panicked]
    /\ UNCHANGED << graph_vars, helper, circular, sparse_set >>

GetMut ==
    /\ ~world.panicked
    /\ \E entity \in world.issued :
         LET r == World_get(world.w, entity)
         IN  world' = [world EXCEPT !.w = r.set, !.call = "get_mut",
                                    !.panicked = r.panicked]
    /\ UNCHANGED << graph_vars, helper, circular, sparse_set >>

Has ==
    /\ ~world.panicked
    /\ \E entity \in world.issued :
         LET r == World_has(world.w, entity)
         IN  world' = [world EXCEPT !.w = r.set, !.call = "has",
                                    !.panicked = r.panicked]
    /\ UNCHANGED << graph_vars, helper, circular, sparse_set >>

NextWorld ==
    \/ Spawn
    \/ Despawn
    \/ Insert
    \/ Remove
    \/ Get
    \/ GetMut
    \/ Has

SpecWorld == InitWith(MinImageCount) /\ [][NextWorld]_vars

(* ------------------------------------------------------------------ *)
(* Properties                                                          *)
(* ------------------------------------------------------------------ *)

\* The declared uses of a pass: its inputs, then its outputs, each resolve
\* target counted as one more use right after its output.
RECURSIVE DeclaredOutputUses(_)
DeclaredOutputUses(outputs) ==
    IF outputs = << >> THEN << >>
    ELSE LET o == Head(outputs)
             target == ResolveCall(o, 0)
         IN  << [handle |-> o.handle, stage |-> o.stage, layout |-> o.layout] >>
             \o (IF o.resolve_target = NoHandle THEN << >>
                 ELSE << [handle |-> o.resolve_target,
                          stage |-> target.stage,
                          layout |-> target.layout] >>)
             \o DeclaredOutputUses(Tail(outputs))

DeclaredUses(pass) ==
    [ i \in 1 .. Len(pass.inputs) |->
        [ handle |-> pass.inputs[i].handle,
          stage |-> pass.inputs[i].stage,
          layout |-> pass.inputs[i].layout ] ]
    \o DeclaredOutputUses(pass.outputs)

\* How many of the uses require a (stage, layout) that differs from the
\* state recorded for their resource when the use is reached.
RECURSIVE DifferingUses(_, _)
DifferingUses(recorded, uses) ==
    IF uses = << >> THEN 0
    ELSE LET u == Head(uses)
         IN  IF u.handle \notin DOMAIN recorded
             THEN DifferingUses(recorded, Tail(uses))
             ELSE IF recorded[u.handle].current_layout = u.layout
                     /\ recorded[u.handle].current_stage = u.stage
             THEN DifferingUses(recorded, Tail(uses))
             ELSE 1 + DifferingUses(
                         [recorded EXCEPT
                            ![u.handle].current_layout = u.layout,
                            ![u.handle].current_stage = u.stage],
                         Tail(uses))

\* the barriers of all pass batches of the latest frame
RECURSIVE TotalBarriers(_)
TotalBarriers(logs) ==
    IF logs = << >> THEN 0
    ELSE Len(Head(logs).batch) + TotalBarriers(Tail(logs))

\* the graphics submissions not yet retired
InFlight == { i \in 1 .. Len(gfx_queue) : gfx_queue[i].op = "submit" }

\* the copies a submission targets through uses without the temporal flag
OwnCopies(op) == { <<t[1], t[2]>> : t \in { x \in op.targets : ~x[3] } }

\* the copies a submission targets through any use
AllCopies(op) == { <<t[1], t[2]>> : t \in op.targets }

\* C1: for every pass whose batch execute recorded, the number of image
\* barriers in the batch equals the number of its declared uses (inputs,
\* then outputs, each resolve target one more use) whose required
\* (stage, layout) differs from the state recorded for the resource.
C1_BarrierCountMatchesUses ==
    \A p \in 1 .. Len(last.logs) :
        Len(last.logs[p].batch)
          = DifferingUses(last.logs[p].pre, DeclaredUses(passes[p]))

\* C1 witness: a frame in which a pass needed a barrier for some of its
\* uses and none for others.
C1_Witness ==
    /\ last.outcome = "ok"
    /\ \E p \in 1 .. Len(last.logs) :
          /\ Len(last.logs[p].batch) > 0
          /\ Len(last.logs[p].batch) < Len(DeclaredUses(passes[p]))

C3_TrackedStateIsReal ==
    last.submitted =>
      \A p \in 1 .. Len(last.logs) :
        \A e \in 1 .. Len(last.logs[p].trace) :
          LET use == last.logs[p].trace[e]
          IN  IF use.barrier
              THEN use.old_layout \in {use.actual_before, "UNDEFINED"}
              ELSE use.actual_before = use.required_layout

\* C4 as stated: after a frame whose acquisition reported staleness the
\* slot index has advanced to (slot + 1) mod N.
C4_StaleAcquireAdvances ==
    last.outcome = "acquire_stale" => current_frame = NextFrame(last.slot)

\* C5: when present reports staleness after the submission, the surface is
\* recreated, the submission stands (it is still queued, or it has
\* retired and signaled the slot's fence), the slot index has advanced by
\* one and execute returned Ok.
C5_PresentStaleConsumed ==
    last.outcome = "present_stale" =>
      /\ last.recreated
      /\ last.submitted
      /\ last.returned = "Ok"
      /\ current_frame = (last.slot + 1) % FRAMES_IN_FLIGHT
      /\ current_frame # last.slot
      /\ \/ in_flight_fences[last.slot]
         \/ \E i \in InFlight : gfx_queue[i].slot = last.slot

\* C5 witness: a frame whose present reported staleness.
C5_Witness ==
    /\ last.outcome = "present_stale"
    /\ \E i \in InFlight : gfx_queue[i].slot = last.slot

\* C6 as stated: no two in-flight frames target the same physical copy of
\* a per-frame resource, whatever the temporal flags of the uses.
C6_NoSharedCopy ==
    \A i, j \in InFlight :
        i # j => AllCopies(gfx_queue[i]) \cap AllCopies(gfx_queue[j]) = {}

\* C6 amended: no two in-flight frames target the same physical copy of a
\* per-frame resource through uses without the temporal flag.
C6_NoSharedOwnCopy ==
    \A i, j \in InFlight :
        i # j => OwnCopies(gfx_queue[i]) \cap OwnCopies(gfx_queue[j]) = {}

\* C6 witness: two frames in flight, each targeting a copy of its own
\* while the later one also reads the earlier one's copy.
C6_Witness ==
    \E i, j \in InFlight :
        /\ i < j
        /\ OwnCopies(gfx_queue[i]) # {}
        /\ OwnCopies(gfx_queue[j]) # {}
        /\ AllCopies(gfx_queue[i]) \cap AllCopies(gfx_queue[j]) # {}

\* C7 as stated: a frame never signals a render-finished semaphore while an
\* earlier signal of that semaphore still waits to be consumed by a
\* present that has not completed.
C7_SemaphoreNeverReSignaled ==
    last.submitted => ~last.semaphore_busy

\* C8 as stated: at every submission the pool of image-indexed semaphores
\* is as long as the surface's image list, and the acquired index is
\* always a valid index into it.
C8_PoolMatchesSurface ==
    /\ last.submitted => last.pool_matched
    /\ last.outcome # "panic_index"

\* C9: a graphics submission from slot i waits on slot i's transfer
\* semaphore exactly if slot i's pending flag is set, and clears that flag
\* and no other; a frame whose acquisition was stale waits on nothing and
\* changes no flag.
C9_PendingConsumedBySlot ==
    [][ last' # last =>
          /\ last'.submitted =>
               /\ last'.slot = current_frame
               /\ gfx_queue'[Len(gfx_queue) + 1].op = "submit"
               /\ gfx_queue'[Len(gfx_queue) + 1].waits_transfer
                    = pending_transfers[current_frame]
               /\ pending_transfers'
                    = [pending_transfers EXCEPT ![current_frame] = FALSE]
          /\ last'.outcome = "acquire_stale" =>
               /\ ~last'.waited_transfer
               /\ pending_transfers' = pending_transfers ]_vars

\* C9 witness: a submission that waited on its slot's transfer while the
\* other slot's transfer stays pending.
C9_Witness ==
    /\ last.submitted
    /\ last.waited_transfer
    /\ ~pending_transfers[last.slot]
    /\ \E s \in Slots : s # last.slot /\ pending_transfers[s]

\* C10 as stated: a graphics submission that waits on a transfer is issued
\* at least one frame after the transfer was submitted (a full cycle of N
\* frames asks for even more).
C10_VisibleNoSoonerThanNextCycle ==
    last.waited_transfer => last.consumed_age >= 1

\* C10 amended: the transfer is waited on by the next graphics submission
\* made from its slot, so fewer than N graphics submissions, possibly
\* none, are issued between the transfer and the submission that waits.
C10_ConsumedWithinOneCycle ==
    last.waited_transfer => last.consumed_age < FRAMES_IN_FLIGHT

\* C10 witness: the very next graphics submission waits on the transfer.
C10_Witness ==
    /\ last.waited_transfer
    /\ last.consumed_age = 0

\* C11 as stated: a frame is never submitted with a pass use (input,
\* output or resolve target) naming a handle the registry does not hold;
\* such a use is surfaced as an error instead of being skipped.
C11_UnknownHandleSurfaced ==
    last.submitted =>
      \A p \in 1 .. Len(last.logs) :
        \A i \in 1 .. Len(DeclaredUses(last.logs[p].pass)) :
          DeclaredUses(last.logs[p].pass)[i].handle
             \in DOMAIN last.logs[p].pre

\* C12 as stated: whenever execute recreates the surface, the replaced
\* presentation images and views are destroyed with no submitted work on
\* them outstanding.
C12_DestroyedOnlyWhenIdle ==
    last.recreated => ~last.destroyed_in_use

\* every use a pass makes of one handle requires the same (stage, layout)
UniformUses(pass) ==
    \A i, j \in 1 .. Len(DeclaredUses(pass)) :
        LET u == DeclaredUses(pass)[i]
            v == DeclaredUses(pass)[j]
        IN  u.handle = v.handle => u.stage = v.stage /\ u.layout = v.layout

\* a pass uses some handle of the registry with two different requirements
MixedUses(pass, recorded) ==
    \E i, j \in 1 .. Len(DeclaredUses(pass)) :
        LET u == DeclaredUses(pass)[i]
            v == DeclaredUses(pass)[j]
        IN  /\ u.handle = v.handle
            /\ u.handle \in DOMAIN recorded
            /\ u.stage # v.stage \/ u.layout # v.layout

\* C13 as stated: a pass run right after an identical pass, with nothing
\* else touching the registry in between, synthesizes zero barriers,
\* whatever its lists of uses are.
C13_RerunZeroBarriers ==
    \A p \in 2 .. Len(last.logs) :
        last.logs[p].pass = last.logs[p - 1].pass
           => last.logs[p].batch = << >>

\* C13 amended: a pass run right after an identical pass synthesizes zero
\* barriers if all its uses of any one handle require the same
\* (stage, layout); if it uses a registered handle with two different
\* requirements it synthesizes at least one barrier again.
C13_RerunZeroBarriersUniform ==
    \A p \in 2 .. Len(last.logs) :
        last.logs[p].pass = last.logs[p - 1].pass =>
          /\ UniformUses(last.logs[p].pass) => last.logs[p].batch = << >>
          /\ MixedUses(last.logs[p].pass, last.logs[p].pre)
                => last.logs[p].batch # << >>

\* C13 witness: a pass naming one handle twice with the same requirement
\* ran twice in a frame; the first run needed a barrier, the second none.
C13_Witness ==
    /\ last.submitted
    /\ Len(last.logs) = 2
    /\ last.logs[1].pass = RepeatedHandlePass
    /\ last.logs[2].pass = RepeatedHandlePass
    /\ Len(last.logs[1].batch) = 1
    /\ last.logs[2].batch = << >>

\* the handles a caller may name in a use
NamedHandles == {SwapchainHandle, FirstImport, SecondImport, NeverIssued}

\* the state after processing the use (handle, usage, use_frame) against
\* the current registry, and after processing it once more
UsedOnce(handle, usage, use_frame) ==
    process_resource(SynthState(resources, actual_layout), handle,
                     get_stage_and_access(usage)[1], get_layout(usage),
                     use_frame)

UsedTwice(handle, usage, use_frame) ==
    process_resource(UsedOnce(handle, usage, use_frame), handle,
                     get_stage_and_access(usage)[1], get_layout(usage),
                     use_frame)

\* C14: processing the identical use (same handle, same required stage
\* and layout) a second time right after the first synthesizes no barrier
\* and leaves the recorded (layout, stage) of every resource unchanged.
\* This holds for every use against every registry the graph reaches, and
\* for every two identical uses that follow each other within a pass.
C14_UseIdempotent ==
    /\ \A handle \in NamedHandles, usage \in ResourceUsage,
          use_frame \in Slots :
         LET once == UsedOnce(handle, usage, use_frame)
             twice == UsedTwice(handle, usage, use_frame)
         IN  ~once.failed =>
               /\ ~twice.failed
               /\ twice.batch = once.batch
               /\ twice.res = once.res
    /\ \A p \in 1 .. Len(last.logs) :
         \A e \in 2 .. Len(last.logs[p].trace) :
           LET first == last.logs[p].trace[e - 1]
               second == last.logs[p].trace[e]
           IN  ( /\ first.handle = second.handle
                 /\ first.required_stage = second.required_stage
                 /\ first.required_layout = second.required_layout )
               => ~second.barrier

\* C14 witness: a pass made the same use twice in a row; the first needed
\* a barrier and the second did not.
C14_Witness ==
    /\ last.submitted
    /\ \E p \in 1 .. Len(last.logs) :
         /\ Len(last.logs[p].trace) = 2
         /\ last.logs[p].trace[1].handle = last.logs[p].trace[2].handle
         /\ last.logs[p].trace[1].required_layout
               = last.logs[p].trace[2].required_layout
         /\ last.logs[p].trace[1].barrier
         /\ ~last.logs[p].trace[2].barrier
    /\ Len(UsedOnce(FirstImport, "ColorAttachment", current_frame).batch) = 1
    /\ Len(UsedTwice(FirstImport, "ColorAttachment", current_frame).batch) = 1

\* C15: the slot index is always within [0, N); after k completed frames
\* with no resize it equals (start + k) mod N, start being 0, so after
\* every N frames it is back at its starting value.
C15_SlotPeriodic ==
    /\ current_frame \in 0 .. (FRAMES_IN_FLIGHT - 1)
    /\ current_frame = frame_no % FRAMES_IN_FLIGHT
    /\ frame_no % FRAMES_IN_FLIGHT = 0 => current_frame = 0

\* C15 witness: exactly N frames have completed and the slot index is
\* back at its starting value.
C15_Witness ==
    /\ frame_no = FRAMES_IN_FLIGHT
    /\ last.submitted
    /\ last.slot = FRAMES_IN_FLIGHT - 1
    /\ current_frame = 0

\* C16: for every N from 2 up and every current slot c in [0, N), the
\* temporal slot (c + N - 1) mod N lies in [0, N), differs from c, is the
\* slot before c (the last slot for c = 0) and is computed with no
\* intermediate value below zero; get_previous_frame_image returns the
\* image of a per-frame resource at exactly that slot.
C16_TemporalSlot ==
    /\ \A n \in 2 .. MaxSlots :
         \A c \in 0 .. (n - 1) :
            /\ prev_frame(c, n) \in 0 .. (n - 1)
            /\ prev_frame(c, n) # c
            /\ prev_frame(c, n) = (IF c = 0 THEN n - 1 ELSE c - 1)
            /\ (c + n) - 1 >= 0
    /\ \A handle \in DOMAIN resources :
         resources[handle].resource = "Image" =>
           \A c \in Slots :
              /\ get_previous_frame_image(resources, handle, c)
                   = Some(<<handle, (c + FRAMES_IN_FLIGHT - 1)
                                       % FRAMES_IN_FLIGHT>>)
              /\ get_previous_frame_image(resources, handle, c)
                   # get_image(resources, handle, c)

\* C16 witness: a frame has run, the current slot is 0 and the previous
\* frame's image of an imported resource is its last copy.
C16_Witness ==
    /\ last.submitted
    /\ current_frame = 0
    /\ FirstImport \in DOMAIN resources
    /\ get_previous_frame_image(resources, FirstImport, current_frame)
         = Some(<<FirstImport, FRAMES_IN_FLIGHT - 1>>)

\* C17: every import issues exactly one handle, which is not the
\* backbuffer's handle and is greater than every handle the registry
\* already holds (so issued handles are strictly increasing and pairwise
\* distinct); no other operation (update, frame, surface recreation)
\* issues or retires an imported handle.
C17_FreshHandles ==
    [][ LET issued == DOMAIN resources' \ DOMAIN resources
        IN  /\ DOMAIN resources \subseteq DOMAIN resources'
            /\ resource_counter' # resource_counter =>
                 /\ Cardinality(issued) = 1
                 /\ \A h \in issued :
                      /\ h # SwapchainHandle
                      /\ \A g \in DOMAIN resources : h > g
                      /\ h >= resource_counter
                      /\ resource_counter' > h
            /\ resource_counter' = resource_counter =>
                 issued \subseteq {SwapchainHandle} ]_vars

\* C17 witness: both imports were made on a graph that also ran a frame,
\* and the three handles are distinct.
C17_Witness ==
    /\ last.submitted
    /\ Cardinality(DOMAIN resources) = MaxRegistered + 1
    /\ SwapchainHandle \in DOMAIN resources
    /\ \E g, h \in DOMAIN resources :
          SwapchainHandle < g /\ g < h /\ h < resource_counter

\* C18: update on a known handle keeps the set of registered handles and
\* the handle counter, leaves that resource recorded as (layout undefined,
\* stage none), and leaves every other resource's recorded state and the
\* current slot unchanged.  Stated for the registry update leaves behind,
\* against every reachable registry, and for every step that changes the
\* registry without running a frame or registering a handle.
C18_UpdateKeepsIdentity ==
    /\ [](\A handle \in DOMAIN resources :
            LET updated == UpdatedResources(resources, handle)
            IN  /\ DOMAIN updated = DOMAIN resources
                /\ updated[handle].current_layout = "UNDEFINED"
                /\ updated[handle].current_stage = "NONE"
                /\ \A other \in DOMAIN resources \ {handle} :
                      updated[other] = resources[other])
    /\ [][ ( /\ resources' # resources
             /\ last' = last
             /\ DOMAIN resources' = DOMAIN resources )
           => /\ resource_counter' = resource_counter
              /\ current_frame' = current_frame
              /\ passes' = passes
              /\ \E handle \in DOMAIN resources :
                   /\ resources'[handle].current_layout = "UNDEFINED"
                   /\ resources'[handle].current_stage = "NONE"
                   /\ \A other \in DOMAIN resources \ {handle} :
                         resources'[other] = resources[other] ]_vars

\* C18 witness: the latest frame transitioned the first imported image
\* and the backbuffer; since then an update reset the imported image's
\* recorded state while the backbuffer's stayed.
C18_Witness ==
    /\ last.submitted
    /\ Len(last.logs) = 1
    /\ Len(last.logs[1].batch) = 2
    /\ last.logs[1].batch[1].image[1] = FirstImport
    /\ resources[FirstImport].current_layout = "UNDEFINED"
    /\ resources[FirstImport].current_stage = "NONE"
    /\ resources[SwapchainHandle].current_layout = "COLOR_ATTACHMENT_OPTIMAL"
    /\ resource_counter = FirstImport + 1

\* the registry with one more entry, a buffer, under an unused handle
WithBuffer == (NeverIssued :> new_buffer(NeverIssued)) @@ resources

\* C19: get_image, get_images and get_previous_frame_image return None
\* for a handle the registry does not hold and for a handle whose resource
\* is not an image (a buffer; for get_images also the presentation image,
\* which is no per-frame array); they are reads and change nothing.
C19_ResolveUnknownIsNone ==
    /\ \A handle \in NamedHandles :
         handle \notin DOMAIN resources =>
           /\ get_images(resources, handle) = None
           /\ \A frame \in Slots :
                /\ get_image(resources, handle, frame) = None
                /\ get_previous_frame_image(resources, handle, frame) = None
    /\ NeverIssued \notin DOMAIN resources =>
         /\ get_images(WithBuffer, NeverIssued) = None
         /\ \A frame \in Slots :
              /\ get_image(WithBuffer, NeverIssued, frame) = None
              /\ get_previous_frame_image(WithBuffer, NeverIssued, frame)
                    = None
    /\ SwapchainHandle \in DOMAIN resources =>
         get_images(resources, SwapchainHandle) = None

\* C19 witness: after a frame, with one image imported, an unknown handle
\* resolves to None while the imported handle resolves to its images.
C19_Witness ==
    /\ last.submitted
    /\ FirstImport \in DOMAIN resources
    /\ SecondImport \notin DOMAIN resources
    /\ get_image(resources, SecondImport, current_frame) = None
    /\ get_images(resources, SecondImport) = None
    /\ get_previous_frame_image(resources, SecondImport, current_frame) = None
    /\ get_image(resources, FirstImport, current_frame)
         = Some(<<FirstImport, current_frame>>)
    /\ get_images(resources, FirstImport) # None

\* C20: in every frame that acquired an image and did not panic (it was
\* submitted, or it returned the error of the final transition) the
\* callbacks invoked are exactly the declared passes, each once, in the
\* order they were added, whatever resources their uses name.
C20_PassesInDeclaredOrder ==
    (last.submitted \/ last.outcome = "error") =>
      /\ Len(last.logs) = Len(passes)
      /\ \A p \in 1 .. Len(passes) : last.logs[p].pass = passes[p]

\* C20 witness: a frame ran a pass reading an image and then the pass
\* writing it, in the order they were declared.
C20_Witness ==
    /\ last.submitted
    /\ passes = << RepeatedHandlePass, ColorResolvePass >>
    /\ Len(last.logs) = 2
    /\ last.logs[1].pass = RepeatedHandlePass
    /\ last.logs[2].pass = ColorResolvePass

\* position in the command stream of the callback of the k-th pass
CallbackAt(cmds, k) ==
    CHOOSE i \in 1 .. Len(cmds) :
        /\ cmds[i].cmd = "callback"
        /\ Cardinality({ j \in 1 .. i : cmds[j].cmd = "callback" }) = k

\* position of the last command of the k-th pass
PassEnd(cmds, k) ==
    LET c == CallbackAt(cmds, k)
    IN  IF c < Len(cmds) /\ cmds[c + 1].cmd = "end_rendering"
        THEN c + 1 ELSE c

\* position of the first command of the k-th pass
PassStart(cmds, k) == IF k = 1 THEN 1 ELSE PassEnd(cmds, k - 1) + 1

\* C21: in every frame that ran its passes, the barriers of each pass are
\* recorded as one single pipeline-barrier command holding the whole batch
\* (no command at all when the batch is empty); that command is the first
\* one of the pass, before the rendering scope is opened and before the
\* callback, and no barrier command follows the start of the pass's body
\* until the pass has ended.
C21_BarriersBeforeBody ==
    (last.submitted \/ last.outcome = "error") =>
      \A k \in 1 .. Len(last.logs) :
        LET cmds == last.commands
            first == PassStart(cmds, k)
            body == CallbackAt(cmds, k)
            recorded == { i \in first .. PassEnd(cmds, k) :
                            cmds[i].cmd = "pipeline_barrier" }
        IN  /\ cmds[body].pass = last.logs[k].pass
            /\ IF last.logs[k].batch = << >>
               THEN recorded = {}
               ELSE /\ recorded = { first }
                    /\ cmds[first].barriers = last.logs[k].batch
                    /\ first < body
            /\ \A i \in first .. body - 1 :
                 cmds[i].cmd = "begin_rendering" => recorded \subseteq 1 .. i - 1

\* C21 witness: a submitted frame of two passes in which the first pass
\* recorded a batch of two barriers in one command ahead of its rendering
\* scope and the second pass, needing none, recorded no barrier command.
C21_Witness ==
    /\ last.submitted
    /\ Len(last.logs) = 2
    /\ Len(last.logs[1].batch) = 2
    /\ last.logs[2].batch = << >>
    /\ last.commands[1].cmd = "pipeline_barrier"
    /\ last.commands[1].barriers = last.logs[1].batch
    /\ last.commands[2].cmd = "begin_rendering"
    /\ last.commands[3].cmd = "callback"
    /\ last.commands[4].cmd = "end_rendering"
    /\ last.commands[5].cmd # "pipeline_barrier"

\* the handles the uses of the last frame's passes named
HandlesUsed ==
    UNION { { last.logs[k].trace[i].handle : i \in DOMAIN last.logs[k].trace } :
            k \in DOMAIN last.logs }

\* C22: in every frame that reaches submission the command stream ends
\* with exactly one more pipeline barrier after the last pass, followed by
\* the end of the command buffer; that barrier holds one transition of the
\* acquired presentation image from the layout the registry records for it
\* to the present layout, whether or not a pass used the image, and the
\* image handed to present is in the present layout.
C22_FinalBarrierToPresent ==
    last.submitted =>
      LET cmds == last.commands
          n == Len(cmds)
          after == IF last.logs = << >> THEN 1
                   ELSE PassEnd(cmds, Len(last.logs)) + 1
      IN  /\ n = after + 1
          /\ cmds[n].cmd = "end_command_buffer"
          /\ cmds[after].cmd = "pipeline_barrier"
          /\ Len(cmds[after].barriers) = 1
          /\ LET final == cmds[after].barriers[1]
             IN  /\ final.ok
                 /\ final.image = <<SwapchainHandle, last.image_index>>
                 /\ final.old_layout
                      = resources[SwapchainHandle].current_layout
                 /\ final.new_layout = "PRESENT_SRC_KHR"
          /\ last.presented_layout = "PRESENT_SRC_KHR"
          /\ actual_layout[<<SwapchainHandle, last.image_index>>]
               = "PRESENT_SRC_KHR"

\* C22 witness: a submitted frame whose passes never used the presentation
\* image still ends with its transition from undefined to present.
C22_Witness ==
    /\ last.submitted
    /\ Len(last.logs) = 2
    /\ HandlesUsed # {}
    /\ SwapchainHandle \notin HandlesUsed
    /\ last.commands[Len(last.commands) - 1].cmd = "pipeline_barrier"
    /\ last.commands[Len(last.commands) - 1].barriers[1].old_layout
         = "UNDEFINED"
    /\ last.commands[Len(last.commands) - 1].barriers[1].new_layout
         = "PRESENT_SRC_KHR"
    /\ last.presented_layout = "PRESENT_SRC_KHR"

\* a step that is a call of begin_frame or end_frame
HelperCall == helper'.tick # helper.tick

\* the fields of the helper a failed call must leave alone
HelperState(h) ==
    << h.current_frame_index, h.is_frame_started, h.current_frame,
       h.current_image_index, h.render_fences, h.work >>

\* C23: every change of a frame slot's state is made by a call on the
\* current slot and is one of Idle -> Recording by a successful
\* begin_frame, Recording -> Submitted by a successful end_frame, or
\* Submitted -> Idle by a begin_frame whose fence wait returned (the same
\* call goes on to Recording when its acquisition succeeds); at most one
\* slot is Recording; begin_frame while a frame is started and end_frame
\* while none is started return an error and leave the slot index, the
\* started flag, the frame counter and every other field as they were.
C23_SlotLifecycle ==
    [][ /\ \A i \in Slots :
             LET before == SlotState(helper, i)
                 after == SlotState(helper', i)
             IN  before # after =>
                   /\ HelperCall
                   /\ i = helper.current_frame_index
                   /\ \/ /\ before = "Idle"
                         /\ after = "Recording"
                         /\ helper'.call = "begin_frame"
                         /\ helper'.returned = "Ok"
                      \/ /\ before = "Recording"
                         /\ after = "Submitted"
                         /\ helper'.call = "end_frame"
                         /\ helper'.returned = "Ok"
                      \/ /\ before = "Submitted"
                         /\ after \in {"Idle", "Recording"}
                         /\ helper'.call = "begin_frame"
                         /\ (after = "Recording") = (helper'.returned = "Ok")
                         /\ helper.render_fences[i]
                         /\ ~helper'.render_fences[i]
        /\ Cardinality({ i \in Slots :
                           SlotState(helper', i) = "Recording" }) <= 1
        /\ (HelperCall /\ helper'.call = "begin_frame"
              /\ helper.is_frame_started)
             => /\ helper'.returned = "Err"
                /\ HelperState(helper') = HelperState(helper)
        /\ (HelperCall /\ helper'.call = "end_frame"
              /\ ~helper.is_frame_started)
             => /\ helper'.returned = "Err"
                /\ HelperState(helper') = HelperState(helper)
      ]_vars

\* C23 witness: begin_frame was called while the second frame was being
\* recorded and failed; the slot of the first frame is Submitted, the
\* current one still Recording.
C23_Witness ==
    /\ helper.call = "begin_frame"
    /\ helper.returned = "Err"
    /\ helper.is_frame_started
    /\ helper.current_frame = 1
    /\ SlotState(helper, 1) = "Recording"
    /\ SlotState(helper, 0) = "Submitted"

\* the specified table: usage -> (stage, access, layout)
UsageTable ==
    [ ColorAttachment |->
        << "COLOR_ATTACHMENT_OUTPUT", "COLOR_ATTACHMENT_WRITE",
           "COLOR_ATTACHMENT_OPTIMAL" >>,
      DepthStencilAttachment |->
        << "EARLY_FRAGMENT_TESTS", "DEPTH_STENCIL_ATTACHMENT_WRITE",
           "DEPTH_STENCIL_ATTACHMENT_OPTIMAL" >>,
      DepthStencilResolve |->
        << "COLOR_ATTACHMENT_OUTPUT", "COLOR_ATTACHMENT_WRITE",
           "DEPTH_STENCIL_ATTACHMENT_OPTIMAL" >>,
      ShaderRead |->
        << "FRAGMENT_SHADER", "SHADER_READ", "SHADER_READ_ONLY_OPTIMAL" >>,
      StorageRead |->
        << "COMPUTE_SHADER", "SHADER_STORAGE_READ", "GENERAL" >>,
      StorageWrite |->
        << "COMPUTE_SHADER", "SHADER_STORAGE_WRITE", "GENERAL" >>,
      TransferSrc |->
        << "TRANSFER", "TRANSFER_READ", "TRANSFER_SRC_OPTIMAL" >>,
      TransferDst |->
        << "TRANSFER", "TRANSFER_WRITE", "TRANSFER_DST_OPTIMAL" >>,
      Present |-> << "NONE", "NONE", "PRESENT_SRC_KHR" >> ]

\* C24: the usage table is total and deterministic: for each of the nine
\* usages get_stage_and_access and get_layout give exactly the specified
\* (stage, access, layout), DepthStencilResolve (color output, color
\* write, depth attachment) and Present (none, none, present) included;
\* and the use a frame processes is required at the stage and in the
\* layout of its usage's row.
C24_UsageTable ==
    /\ DOMAIN UsageTable = ResourceUsage
    /\ \A usage \in ResourceUsage :
         /\ << get_stage_and_access(usage)[1], get_stage_and_access(usage)[2],
               get_layout(usage) >> = UsageTable[usage]
         /\ \A as_output \in BOOLEAN :
              ( /\ passes = << UsagePass(usage, as_output) >>
                /\ last.logs # << >>
                /\ last.logs[1].trace # << >> )
              => /\ last.logs[1].trace[1].required_stage
                      = UsageTable[usage][1]
                 /\ last.logs[1].trace[1].required_layout
                      = UsageTable[usage][3]

\* C24 witness: a submitted frame processed an output declared as
\* DepthStencilResolve and required it at the color-output stage in the
\* depth-attachment layout.
C24_Witness ==
    /\ last.submitted
    /\ passes = << UsagePass("DepthStencilResolve", TRUE) >>
    /\ Len(last.logs[1].trace) = 1
    /\ last.logs[1].trace[1].barrier
    /\ last.logs[1].trace[1].required_stage = "COLOR_ATTACHMENT_OUTPUT"
    /\ last.logs[1].trace[1].required_layout
         = "DEPTH_STENCIL_ATTACHMENT_OPTIMAL"

\* the rendering scopes the last frame opened
RenderingScopes ==
    { i \in 1 .. Len(last.commands) :
        last.commands[i].cmd = "begin_rendering" }

\* C25: in every rendering scope a frame opens, each color attachment that
\* carries a resolve image carries the resolve mode average and the depth
\* attachment that carries one carries the resolve mode max, never the
\* other mode and never none; an attachment without a resolve image
\* carries no resolve mode.
C25_ResolveModes ==
    \A i \in RenderingScopes :
      LET scope == last.commands[i]
      IN  /\ \A a \in 1 .. Len(scope.color_attachments) :
               LET att == scope.color_attachments[a]
               IN  /\ att.image_layout = "COLOR_ATTACHMENT_OPTIMAL"
                   /\ att.resolve_mode =
                        IF att.resolve_image_view # None THEN "AVERAGE"
                        ELSE "NONE"
          /\ scope.depth_attachment # None =>
               LET att == scope.depth_attachment[1]
               IN  /\ att.image_layout = "DEPTH_STENCIL_ATTACHMENT_OPTIMAL"
                   /\ att.resolve_mode =
                        IF att.resolve_image_view # None THEN "MAX"
                        ELSE "NONE"

\* C25 witness: a submitted frame opened one scope whose color attachment
\* resolves into the presentation image with mode average and one scope
\* whose depth attachment resolves into the second import with mode max.
C25_Witness ==
    /\ last.submitted
    /\ \E i, j \in RenderingScopes :
         /\ Len(last.commands[i].color_attachments) = 1
         /\ last.commands[i].color_attachments[1].resolve_image_view
              = Some(<<SwapchainHandle, last.image_index>>)
         /\ last.commands[i].color_attachments[1].resolve_mode = "AVERAGE"
         /\ last.commands[j].depth_attachment # None
         /\ last.commands[j].depth_attachment[1].resolve_image_view
              = Some(<<SecondImport, last.slot>>)
         /\ last.commands[j].depth_attachment[1].resolve_mode = "MAX"

\* n calls of rotate_next
RECURSIVE Rotations(_, _)
Rotations(c, n) == IF n = 0 THEN c ELSE Rotations(rotate_next(c), n - 1)

\* the rotation laws at the cursor's present position
RotationLaws ==
    /\ circular.op = "cursor_mut" => circular.cursor = 1
    /\ circular.cursor = Len(circular.items)
         => rotate_next(circular).cursor = 1
    /\ circular.cursor = 1
         => rotate_prev(circular).cursor = Len(circular.items)
    /\ rotate_prev(rotate_next(circular)) = circular
    /\ Rotations(circular, Len(circular.items)) = circular

\* C26: while a cursor is borrowed from a non-empty list, current() is
\* never None; the cursor of cursor_mut starts at the head; rotate_next
\* from the last element gives the first and rotate_prev from the first
\* gives the last; rotate_prev undoes rotate_next; and as many rotate_next
\* calls as the list has elements return to the starting element.
C26_RotationCyclic ==
    (circular.borrowed /\ circular.items # << >>) =>
      /\ cursor_current(circular) # None
      /\ RotationLaws

\* C27: a call of execute whose acquisition reports staleness invokes no
\* pass callback and records no command, hands neither a submission nor a
\* present to the graphics queue, leaves every pending-transfer flag and
\* every recorded state of the registry as it was, and returns Ok.
C27_StaleFrameDoesNothing ==
    [][ (last' # last /\ last'.outcome = "acquire_stale") =>
          /\ last'.logs = << >>
          /\ last'.commands = << >>
          /\ ~last'.submitted
          /\ ~last'.waited_transfer
          /\ Len(gfx_queue') <= Len(gfx_queue)
          /\ \A i \in 1 .. Len(gfx_queue') :
                /\ gfx_queue'[i].op = gfx_queue[i].op
                /\ gfx_queue'[i].slot = gfx_queue[i].slot
                /\ gfx_queue'[i].image = gfx_queue[i].image
          /\ pending_transfers' = pending_transfers
          /\ resources' = resources
          /\ passes' = passes
          /\ ~panicked'
          /\ last'.returned = "Ok" ]_vars

\* C27 witness: after a frame that ran the pass, a frame whose acquisition
\* was stale returned Ok while a transfer was pending for its slot; the
\* flag is still set and the registry still records the first frame's
\* layouts.
C27_Witness ==
    /\ last.outcome = "acquire_stale"
    /\ last.returned = "Ok"
    /\ last.slot = 1
    /\ pending_transfers[1]
    /\ passes = << ColorResolvePass >>
    /\ resources[FirstImport].current_layout = "COLOR_ATTACHMENT_OPTIMAL"
    /\ resources[SwapchainHandle].current_layout = "COLOR_ATTACHMENT_OPTIMAL"

\* the usage whose table row a resolve target of the output is to get
ResolveUsage(output) ==
    IF output.layout = "DEPTH_STENCIL_ATTACHMENT_OPTIMAL"
    THEN "DepthStencilResolve" ELSE "ColorAttachment"

\* C28: in every frame that ran its passes, each registered resolve target
\* of an output is processed as one more use, required at the stage and in
\* the layout the usage table gives for ColorAttachment when the output is
\* a color attachment and for DepthStencilResolve when it is a depth
\* attachment: a depth-resolve target is required in the depth-attachment
\* layout at the color-output stage, not at the early-fragment-test stage
\* of the depth attachment itself.
C28_ResolveTargetUsage ==
    (last.submitted \/ last.outcome = "error") =>
      \A k \in 1 .. Len(last.logs) :
        \A o \in 1 .. Len(last.logs[k].pass.outputs) :
          LET output == last.logs[k].pass.outputs[o]
              trace == last.logs[k].trace
          IN  output.resolve_target \in DOMAIN last.logs[k].pre =>
                \E i \in 1 .. Len(trace) :
                  /\ trace[i].handle = output.resolve_target
                  /\ trace[i].required_stage
                       = get_stage_and_access(ResolveUsage(output))[1]
                  /\ trace[i].required_layout
                       = get_layout(ResolveUsage(output))

\* C29: after every frame that was submitted, the layout the registry
\* records for the presentation image is the present layout, the target
\* of the final transition, not the layout required by the last pass that
\* used the image.
C29_RecordedLayoutPresent ==
    last.submitted =>
      resources[SwapchainHandle].current_layout = "PRESENT_SRC_KHR"

\* the uses of the presentation image by the k-th pass of the last frame
BackbufferUses(k) ==
    { i \in 1 .. Len(last.logs[k].trace) :
        last.logs[k].trace[i].handle = SwapchainHandle }

\* C30: in every frame that acquired an image the passes start from a
\* registry that records the presentation image in the state of a fresh
\* import, layout undefined and stage none, whatever the previous frame
\* left; and the first use of the presentation image in the frame
\* synthesizes a barrier from the undefined layout.
C30_BackbufferResetToUndefined ==
    (last.submitted \/ last.outcome = "error") =>
      \A k \in 1 .. Len(last.logs) :
        /\ k = 1 =>
             /\ last.logs[k].pre[SwapchainHandle].current_layout
                  = new_image(SwapchainHandle).current_layout
             /\ last.logs[k].pre[SwapchainHandle].current_stage
                  = new_image(SwapchainHandle).current_stage
        /\ ( /\ BackbufferUses(k) # {}
             /\ \A j \in 1 .. k - 1 : BackbufferUses(j) = {} )
           => LET first == CHOOSE i \in BackbufferUses(k) :
                             \A j \in BackbufferUses(k) : i <= j
              IN  /\ last.logs[k].trace[first].barrier
                  /\ last.logs[k].trace[first].old_layout = "UNDEFINED"

\* the graphics submissions that have not retired
Unretired ==
    { i \in 1 .. Len(gfx_queue) : gfx_queue[i].op = "submit" }

\* C31: at any moment at most FRAMES_IN_FLIGHT graphics submissions are
\* unretired, and a call of execute that resets and re-records the
\* command buffer of its slot (every call whose acquisition was not stale)
\* starts when no submission made from that slot is still unretired and
\* the slot's fence is signaled, whatever the interleaving of frames,
\* recreations, resizes and completions on the device.
C31_SlotReusedAfterRetire ==
    /\ [](Cardinality(Unretired) <= FRAMES_IN_FLIGHT)
    /\ [][ (last' # last /\ last'.outcome # "acquire_stale") =>
             /\ in_flight_fences[current_frame]
             /\ \A i \in Unretired : gfx_queue[i].slot # current_frame ]_vars

\* C31 witness: both slots have a submission in flight, so the next frame
\* has to wait for the device.
C31_Witness ==
    /\ Cardinality(Unretired) = FRAMES_IN_FLIGHT
    /\ \A s \in Slots : ~in_flight_fences[s]
    /\ last.submitted
    /\ last.slot = FRAMES_IN_FLIGHT - 1

\* an output declared with usage ColorAttachment or DepthStencilAttachment
\* (the rows of the usage table with these stages and layouts) whose handle
\* names an image of the registry
QualifyingOutput(output) ==
    /\ \/ /\ output.layout = get_layout("ColorAttachment")
          /\ output.stage = get_stage_and_access("ColorAttachment")[1]
       \/ /\ output.layout = get_layout("DepthStencilAttachment")
          /\ output.stage = get_stage_and_access("DepthStencilAttachment")[1]
    /\ output.handle \in DOMAIN resources
    /\ resources[output.handle].resource \in {"SwapchainImage", "Image"}

\* C32: in every frame that ran its passes a rendering scope is opened for
\* a pass if and only if one of its outputs is declared ColorAttachment or
\* DepthStencilAttachment and names an image; an opened scope is closed
\* right after the callback of the pass, before anything of the next pass
\* is recorded; a pass without such an output records neither the opening
\* nor the closing of a scope.
C32_ScopeIffAttachmentOutput ==
    (last.submitted \/ last.outcome = "error") =>
      \A k \in 1 .. Len(last.logs) :
        LET cmds == last.commands
            body == CallbackAt(cmds, k)
            outputs == last.logs[k].pass.outputs
            opened == \E i \in PassStart(cmds, k) .. body - 1 :
                         cmds[i].cmd = "begin_rendering"
            closed == body < Len(cmds) /\ cmds[body + 1].cmd = "end_rendering"
        IN  /\ opened <=> \E o \in 1 .. Len(outputs) :
                             QualifyingOutput(outputs[o])
            /\ opened <=> closed

\* the physical copy a declared use is to target in a frame recorded from
\* the given slot
CopyFor(use, slot) ==
    IF use.use_previous_frame
    THEN (slot + FRAMES_IN_FLIGHT - 1) % FRAMES_IN_FLIGHT
    ELSE slot

\* the image views a rendering scope binds
BoundViews(scope) ==
    { scope.color_attachments[a].image_view :
        a \in 1 .. Len(scope.color_attachments) }
    \cup (IF scope.depth_attachment = None THEN {}
          ELSE { scope.depth_attachment[1].image_view })

\* C33: in every frame that ran its passes, each declared use of a pass
\* without resolve targets, input or output, is processed against the
\* copy (current + FRAMES_IN_FLIGHT - 1) mod FRAMES_IN_FLIGHT of its image
\* when its previous-frame flag is set and against the current slot's copy
\* otherwise, and the views a rendering scope binds are these copies of
\* the pass's outputs.
C33_TemporalCopySelected ==
    (last.submitted \/ last.outcome = "error") =>
      \A k \in 1 .. Len(last.logs) :
        LET pass == last.logs[k].pass
            uses == pass.inputs \o pass.outputs
            trace == last.logs[k].trace
            cmds == last.commands
        IN  (\A u \in 1 .. Len(uses) : uses[u].resolve_target = NoHandle) =>
              /\ Len(trace) = Len(uses)
              /\ \A u \in 1 .. Len(uses) :
                   trace[u].image
                     = << uses[u].handle, CopyFor(uses[u], last.slot) >>
              /\ \A i \in PassStart(cmds, k) .. CallbackAt(cmds, k) :
                   cmds[i].cmd = "begin_rendering" =>
                     BoundViews(cmds[i]) \subseteq
                       { << pass.outputs[o].handle,
                            CopyFor(pass.outputs[o], last.slot) >> :
                           o \in 1 .. Len(pass.outputs) }

\* C34: on a device that eventually completes submitted work, whenever the
\* in-flight fence of a slot is unsignaled it is signaled again later, so
\* the wait at the beginning of the next execute on that slot returns:
\* every reset of the fence is followed by a graphics submission that
\* re-arms it, on every path out of execute.
C34_FenceWaitEventuallyReturns ==
    \A s \in Slots : (~in_flight_fences[s]) ~> in_flight_fences[s]

\* C35: a render fence of the helper that is unsignaled either has a
\* submission in flight that will signal it or belongs to the frame being
\* recorded, which end_frame will submit with it; so after any return of
\* begin_frame, the error returns on a stale acquisition included, the
\* wait of a later begin_frame on the same slot finds a fence that is, or
\* is going to be, signaled.
C35_RenderFenceRearmed ==
    \A s \in Slots :
      ~helper.render_fences[s] =>
        \/ helper.work[s] = "executing"
        \/ helper.is_frame_started /\ helper.current_frame_index = s

\* C36: a transfer is submitted against a slot (its transfer fence goes
\* from signaled to unsignaled) only when the signal of the slot's
\* transfer-finished semaphore made by the previous transfer submission
\* has been taken as a wait by a graphics submission of that slot, that
\* is, when the slot's pending flag is clear; so between two transfer
\* submissions against one slot there is a graphics submission waiting on
\* the semaphore.
C36_TransferSignalConsumedBeforeNext ==
    [][ \A s \in Slots :
          (transfer_fences[s] /\ ~transfer_fences'[s]) =>
            ~pending_transfers[s] ]_vars

\* C37: for any two usages applied by successive passes to one image,
\* every barrier execute synthesizes is built successfully, whatever
\* layout the registry records as the source (the general layout left by
\* StorageRead and StorageWrite and the present layout included): no
\* frame panics on a transition and no frame returns an error.
C37_BarrierSynthesisTotal ==
    /\ last.outcome \notin {"panic_transition", "error"}
    /\ \A k \in 1 .. Len(last.logs) :
         \A b \in 1 .. Len(last.logs[k].batch) : last.logs[k].batch[b].ok

\* C39: after any sequence of insert and remove on a SparseSet, every
\* position inserted and not since removed has a sparse entry below
\* dense.len() whose dense_idx entry is the position itself, and indexing
\* it yields the value last inserted there; so an insert or a remove of
\* one position leaves the value and the presence observed at every other
\* position as they were.
C39_SparseSetConsistent ==
    \A p \in DOMAIN sparse_set.live :
      LET s == sparse_set.set
      IN  /\ p < Len(s.sparse)
          /\ s.sparse[p + 1] < Len(s.dense)
          /\ s.dense_idx[s.sparse[p + 1] + 1] = p
          /\ s.dense[s.sparse[p + 1] + 1] = sparse_set.live[p]

\* the handles a caller holds that are alive
AliveHandles == { e \in world.issued : is_alive(world.w.entities, e) }

\* C38: a handle whose despawn succeeded is not alive in any later state,
\* a second despawn of it returns false, and get, get_mut, has, insert
\* and remove through it return None or false and leave the World as it
\* is, also when its id has been reissued; at most one of the handles
\* issued for an id is alive; and spawn reissues an id only with a
\* generation strictly larger than that of every handle issued for it
\* before.
C38_GenerationChecked ==
    /\ [](/\ \A e \in world.despawned :
               /\ ~is_alive(world.w.entities, e)
               /\ World_despawn(world.w, e) = Result(world.w, FALSE, FALSE)
               /\ World_get(world.w, e) = Result(world.w, None, FALSE)
               /\ World_has(world.w, e) = Result(world.w, FALSE, FALSE)
               /\ World_remove(world.w, e) = Result(world.w, None, FALSE)
               /\ World_insert(world.w, e, "component")
                    = Result(world.w, None, FALSE)
          /\ \A e1 \in AliveHandles, e2 \in AliveHandles :
               e1.id = e2.id => e1 = e2)
    /\ [][ \A e \in world'.issued \ world.issued :
             \A o \in world.issued :
               o.id = e.id => e.generation > o.generation ]_vars

\* C38 witness: an id was despawned and reissued; the new handle is alive
\* with a larger generation and its entity holds a component, while the
\* old handle of the same id is still held by the caller.
C38_Witness ==
    /\ ~world.panicked
    /\ \E e \in world.despawned, n \in AliveHandles :
         /\ n.id = e.id
         /\ n.generation > e.generation
         /\ World_get(world.w, n).ret # None

\* C40: World::get, get_mut and has on a handle the caller holds return
\* (None or false when the entity has no component of the type) and never
\* panic, whether the entity's index lies beyond every index inserted
\* into the storage or was inserted and later removed.
C40_LookupsTotal ==
    world.call \in {"get", "get_mut", "has"} => ~world.panicked

====
